---- MODULE Spec2Model ----
(***************************************************************************)
(* A model of the replica-set test harness of src/mongo/shell/replsettest.js*)
(* (ReplSetTest): the operation-time ordering, the leadership refresh and  *)
(* the waits built on it.                                                  *)
(***************************************************************************)
EXTENDS Integers, Sequences, FiniteSets, TLC

(***************************************************************************)
(* Bounds of the model.                                                    *)
(***************************************************************************)
\* terms range over -1 .. MaxTerm (-1 is the "no term" sentinel)
MaxTerm == 2
\* number of distinct non-zero seconds values of a Timestamp
MaxSecs == 1
\* increments range over 0 .. MaxInc
MaxInc == 1
\* number of members of the replica set (self.nodes)
NumNodes == 3
\* config versions range over 1 .. MaxVersion
MaxVersion == 2

VARIABLES
    \* --- operation-time comparison (arguments and results) ---
    ot1, ot2, ot3,      \* the operands handed to _isEarlierOpTime
    earlier,            \* the results of the comparisons, once taken
    otpc,               \* "args" before the comparisons, "done" after
    \* --- the replica set as the harness can observe it ---
    ismaster,           \* ismaster[n]: what node n answers to {ismaster: 1}
    \* --- the harness ---
    liveNodes,          \* self.liveNodes = {master, slaves}
    lastSeen,           \* the answers the last _callIsMaster received
    callRet,            \* what the last _callIsMaster returned (0 is false)
    op,                 \* the operation in progress
    pc,                 \* its position
    ret,                \* its return value
    err,                \* the error it threw
    \* --- awaitNodesAgreeOnPrimary ---
    status,             \* status[n]: what node n answers to {replSetGetStatus: 1}
    \* --- awaitLastOpCommitted ---
    masterOpTime,       \* the primary's optime read at the start
    idx,                \* the node the pass in progress is at (0: no pass)
    passLog,            \* what the pass in progress has found so far
    targetLog,          \* the node masterOpTime was read from, and whether a
                        \* pass has begun since the leader last changed
    \* --- awaitReplication ---
    replSet,            \* what the members answer to awaitReplication's queries
    secondaryOpTimeType,\* the optime of the secondaries the call waits for
    masterLatestOpTime, \* the target the secondaries are compared against
    configVersion,      \* the recorded config version
    master,             \* the recorded primary (0: none yet)
    replLog,            \* what the pass in progress has found so far
    \* --- checkReplicatedDataHashes ---
    check,              \* the locals of checkDBHashes and checkDBHashesForReplSet
    fsync,              \* the fsync lock the call has taken on a member
    hashLog,            \* what the call has found so far
    dataSet,            \* what the members answer to the check's queries
    \* --- dumpCollectionDiff ---
    diff,               \* the locals of dumpCollectionDiff
    \* --- ensureOplogsMatch ---
    oplogs,             \* the members' oplogs and what the call did with them
    \* --- awaitSecondaryNodes ---
    roles,              \* roles[n]: what node n reports of itself in ismaster
    \* --- waitForState ---
    wait                \* the arguments and locals of _waitForIndicator

otVars == <<ot1, ot2, ot3, earlier, otpc>>
envVars == <<ismaster>>
harnessVars == <<liveNodes, lastSeen, callRet, op, pc, ret, err>>
agreeVars == <<status>>
commitVars == <<masterOpTime, idx, passLog, targetLog>>
replVars == <<replSet, secondaryOpTimeType, masterLatestOpTime, configVersion, master, replLog>>
hashVars == <<check, fsync, hashLog>>
toolVars == <<dataSet, diff, oplogs, roles, wait>>
dataVars == <<replVars, hashVars, toolVars>>
vars == <<ot1, ot2, ot3, earlier, otpc, ismaster, liveNodes, lastSeen, callRet,
          op, pc, ret, err, status, masterOpTime, idx, passLog, targetLog,
          replSet, secondaryOpTimeType, masterLatestOpTime, configVersion, master,
          replLog,
          check, fsync, hashLog, dataSet, diff, oplogs, roles, wait>>

\* ReplSetTest.State
PRIMARY == 1
SECONDARY == 2
ARBITER == 7

(***************************************************************************)
(* JavaScript values, as far as the harness looks at them.                 *)
(***************************************************************************)
Undefined == [type |-> "undefined"]
Num(n) == [type |-> "number", v |-> n]
NumberLong(n) == [type |-> "NumberLong", v |-> n]

\* A Timestamp carries its seconds in field t and its increment in field i
\* (replsettest.js reads ts.t and ts.i).
Timestamp(secs, inc) == [type |-> "Timestamp", t |-> Num(secs), i |-> Num(inc)]

\* An optime document {ts: <Timestamp>, t: <NumberLong term>}.
OpTimeDoc(ts, term) == [type |-> "object", ts |-> ts, t |-> NumberLong(term)]

\* Property reads: a property an object does not have reads as undefined.
PropT(o) == IF o.type \in {"Timestamp", "object"} THEN o.t ELSE Undefined
PropTs(o) == IF o.type = "object" THEN o.ts ELSE Undefined

\* JavaScript truthiness: undefined and the number 0 are falsy, every object
\* (a NumberLong, whatever its value, included) is truthy.
ToBoolean(x) ==
    CASE x.type = "undefined" -> FALSE
      [] x.type = "number" -> x.v # 0
      [] OTHER -> TRUE

\* friendlyEqual(a, b): a == b, or else the printed forms of a and b agree.
\* A number and a NumberLong are == when their values are; objects are
\* friendly-equal when they are structurally equal.
IsNumeric(x) == x.type \in {"number", "NumberLong"}
friendlyEqual(a, b) == IF IsNumeric(a) /\ IsNumeric(b) THEN a.v = b.v ELSE a = b

\* a < b on numbers and NumberLongs compares their numeric values.
JsLess(a, b) == a.v < b.v

\* Outcome of a call: a returned boolean or a thrown TypeError.
Return(b) == [threw |-> FALSE, value |-> b]
Throw == [threw |-> TRUE, value |-> FALSE]

getTime(ts) == ts.t.v
getInc(ts) == ts.i.v

(***************************************************************************)
(* The operation-time ordering.                                            *)
(***************************************************************************)
\* the comparison with the seconds test and the increment test joined by "or"
Mut_isEarlierTimestamp_or(ts1, ts2) ==
    IF ts1.type # "Timestamp" \/ ts2.type # "Timestamp"
    THEN Throw
    ELSE Return(getTime(ts1) < getTime(ts2) \/ getInc(ts1) < getInc(ts2))

\* the comparison with "<=" on the increments
Mut_isEarlierTimestamp_le(ts1, ts2) ==
    IF ts1.type # "Timestamp" \/ ts2.type # "Timestamp"
    THEN Throw
    ELSE IF getTime(ts1) = getTime(ts2)
         THEN Return(getInc(ts1) <= getInc(ts2))
         ELSE Return(getTime(ts1) < getTime(ts2))

_isEarlierTimestamp(ts1, ts2) ==
    IF ts1.type # "Timestamp" \/ ts2.type # "Timestamp"
    THEN Throw    \* undefined.getTime()
    ELSE IF getTime(ts1) = getTime(ts2)
         THEN Return(getInc(ts1) < getInc(ts2))
         ELSE Return(getTime(ts1) < getTime(ts2))

\* the comparison without the term test
Mut_isEarlierOpTime_noTerm(a, b) ==
    LET o1 == IF ToBoolean(PropT(a)) THEN a ELSE [type |-> "object", ts |-> a, t |-> NumberLong(-1)]
        o2 == IF ToBoolean(PropT(b)) THEN b ELSE [type |-> "object", ts |-> b, t |-> NumberLong(-1)]
    IN  _isEarlierTimestamp(PropTs(o1), PropTs(o2))

_isEarlierOpTime(a, b) ==
    LET o1 == IF ToBoolean(PropT(a)) THEN a ELSE [type |-> "object", ts |-> a, t |-> NumberLong(-1)]
        o2 == IF ToBoolean(PropT(b)) THEN b ELSE [type |-> "object", ts |-> b, t |-> NumberLong(-1)]
    IN  IF /\ ~friendlyEqual(o1.t, NumberLong(-1))
           /\ ~friendlyEqual(o2.t, NumberLong(-1))
           /\ ~friendlyEqual(o1.t, o2.t)
        THEN Return(JsLess(o1.t, o2.t))
        ELSE _isEarlierTimestamp(PropTs(o1), PropTs(o2))

(***************************************************************************)
(* The values the comparison is applied to.                                *)
(***************************************************************************)
Terms == -1 .. MaxTerm
\* Seconds are wall-clock seconds: 0, or a value above every term.
Seconds == {0} \cup {MaxTerm + k : k \in 1 .. MaxSecs}
Incs == 0 .. MaxInc
Timestamps == {Timestamp(s, n) : s \in Seconds, n \in Incs}
OpTimeDocs == {OpTimeDoc(ts, t) : ts \in Timestamps, t \in Terms}
\* what _getLastOpTime and _getLastOpTimeTimestamp can return
OpTimes == OpTimeDocs \cup Timestamps

NoResults == [r11 |-> Return(FALSE), r12 |-> Return(FALSE), r21 |-> Return(FALSE),
              r23 |-> Return(FALSE), r13 |-> Return(FALSE)]

\* The comparisons of the three operands.
CompareOpTimes ==
    /\ otpc = "args"
    /\ earlier' = [r11 |-> _isEarlierOpTime(ot1, ot1),
                   r12 |-> _isEarlierOpTime(ot1, ot2),
                   r21 |-> _isEarlierOpTime(ot2, ot1),
                   r23 |-> _isEarlierOpTime(ot2, ot3),
                   r13 |-> _isEarlierOpTime(ot1, ot3)]
    /\ otpc' = "done"
    /\ UNCHANGED <<ot1, ot2, ot3>>
    /\ UNCHANGED <<envVars, harnessVars, agreeVars, commitVars, dataVars>>

(***************************************************************************)
(* Properties of the operation-time ordering.                              *)
(***************************************************************************)
\* an operand that carries a term (an optime document), and a bare Timestamp
HasTerm(o) == o.type = "object"
IsBare(o) == o.type = "Timestamp"
TermOf(o) == IF HasTerm(o) THEN o.t.v ELSE -1
TsOf(o) == IF HasTerm(o) THEN o.ts ELSE o
\* (seconds, increment) compared lexicographically
TsLess(x, y) == x.t.v < y.t.v \/ (x.t.v = y.t.v /\ x.i.v < y.i.v)
TermsDecide(a, b) == TermOf(a) # -1 /\ TermOf(b) # -1 /\ TermOf(a) # TermOf(b)
\* the ordering as specified
SpecEarlier(a, b) == IF TermsDecide(a, b) THEN TermOf(a) < TermOf(b) ELSE TsLess(TsOf(a), TsOf(b))
IsTrue(r) == ~r.threw /\ r.value

\* C1: for operation times a and b with a term each: if both terms are set
\* (not -1) and differ, _isEarlierOpTime(a, b) is true exactly when a's term
\* is lower; otherwise it is true exactly when a's timestamp is smaller on
\* (seconds, increment).
C1_TermThenTimestamp ==
    (otpc = "done" /\ HasTerm(ot1) /\ HasTerm(ot2)) =>
        /\ TermsDecide(ot1, ot2) => earlier.r12 = Return(TermOf(ot1) < TermOf(ot2))
        /\ ~TermsDecide(ot1, ot2) => earlier.r12 = Return(TsLess(ot1.ts, ot2.ts))

\* C1 witness: the lower term wins against the later timestamp.
C1_Witness ==
    /\ otpc = "done" /\ HasTerm(ot1) /\ HasTerm(ot2)
    /\ TermsDecide(ot1, ot2) /\ TermOf(ot1) < TermOf(ot2)
    /\ TsLess(ot2.ts, ot1.ts)
    /\ IsTrue(earlier.r12)

\* C2 (as stated): the ordering is transitive over all operation times with a
\* term, the unset term -1 included.
C2_TransitiveAll ==
    (otpc = "done" /\ HasTerm(ot1) /\ HasTerm(ot2) /\ HasTerm(ot3)) =>
        ((IsTrue(earlier.r12) /\ IsTrue(earlier.r23)) => IsTrue(earlier.r13))

\* exactly one of a, b, c has the unset term and the other two terms differ
OneUnsetBetweenTwoTerms(a, b, c) ==
    /\ Cardinality({k \in 1 .. 3 : TermOf(<<a, b, c>>[k]) = -1}) = 1
    /\ Cardinality({TermOf(a), TermOf(b), TermOf(c)}) = 3

\* C2 (amended): the ordering is transitive over operation times a, b, c
\* unless exactly one of them has the unset term -1 and the other two have
\* different terms.
C2_TransitiveAmended ==
    (/\ otpc = "done" /\ HasTerm(ot1) /\ HasTerm(ot2) /\ HasTerm(ot3)
     /\ ~OneUnsetBetweenTwoTerms(ot1, ot2, ot3)) =>
        ((IsTrue(earlier.r12) /\ IsTrue(earlier.r23)) => IsTrue(earlier.r13))

\* C2 witness: a chain a < b < c through an unset term, with a < c.
C2_Witness ==
    /\ otpc = "done" /\ HasTerm(ot1) /\ HasTerm(ot2) /\ HasTerm(ot3)
    /\ ~OneUnsetBetweenTwoTerms(ot1, ot2, ot3)
    /\ TermOf(ot2) = -1 /\ TermOf(ot1) # -1 /\ TermOf(ot3) # -1
    /\ IsTrue(earlier.r12) /\ IsTrue(earlier.r23) /\ IsTrue(earlier.r13)

\* C3: for operation times with a term, _isEarlierOpTime(a, a) is false, and
\* _isEarlierOpTime(a, b) and _isEarlierOpTime(b, a) never both hold.
C3_IrreflexiveAsymmetric ==
    (otpc = "done" /\ HasTerm(ot1) /\ HasTerm(ot2)) =>
        /\ earlier.r11 = Return(FALSE)
        /\ ~earlier.r12.threw /\ ~earlier.r21.threw
        /\ ~(earlier.r12.value /\ earlier.r21.value)

\* C3 witness: a is earlier than b and b is not earlier than a.
C3_Witness ==
    /\ otpc = "done" /\ HasTerm(ot1) /\ HasTerm(ot2)
    /\ IsTrue(earlier.r12) /\ earlier.r21 = Return(FALSE)
    /\ earlier.r11 = Return(FALSE)

\* C4: when either operand is a bare Timestamp (no term), the comparison
\* yields a result, and the result is the timestamp comparison of the two
\* operands.
C4_BareTimestampOrdering ==
    (otpc = "done" /\ (IsBare(ot1) \/ IsBare(ot2))) =>
        earlier.r12 = Return(TsLess(TsOf(ot1), TsOf(ot2)))

(***************************************************************************)
(* The replica set as seen through the ismaster command.                   *)
(***************************************************************************)
Nodes == 1 .. NumNodes
\* a node answers ismaster: true ("master"), ismaster: false ("slave"), or
\* the command throws ("throw")
Answers == {"master", "slave", "throw"}

NoLiveNodes == [master |-> 0, slaves |-> <<>>]

\* the variables no operation on the leadership view touches
notLeaderVars == <<otVars, agreeVars, commitVars, dataVars>>

\* The forEach loop of _callIsMaster from node k on: live is self.liveNodes so
\* far, two is twoPrimaries. A node whose command throws is only printed.
RECURSIVE CallIsMasterFrom(_, _, _, _)
CallIsMasterFrom(k, live, two, answers) ==
    IF k > NumNodes THEN [liveNodes |-> live, twoPrimaries |-> two]
    ELSE CASE answers[k] = "throw" -> CallIsMasterFrom(k + 1, live, two, answers)
           [] answers[k] = "master" ->
                IF live.master # 0
                THEN CallIsMasterFrom(k + 1, live, TRUE, answers)
                ELSE CallIsMasterFrom(k + 1, [live EXCEPT !.master = k], two, answers)
           [] OTHER ->
                CallIsMasterFrom(k + 1, [live EXCEPT !.slaves = Append(@, k)], two, answers)

\* the loop without the try/catch around a node: the first throw ends the scan
RECURSIVE Mut_CallIsMasterFrom_abort(_, _, _, _)
Mut_CallIsMasterFrom_abort(k, live, two, answers) ==
    IF k > NumNodes THEN [liveNodes |-> live, twoPrimaries |-> two]
    ELSE CASE answers[k] = "throw" -> [liveNodes |-> live, twoPrimaries |-> two]
           [] answers[k] = "master" ->
                IF live.master # 0
                THEN Mut_CallIsMasterFrom_abort(k + 1, live, TRUE, answers)
                ELSE Mut_CallIsMasterFrom_abort(k + 1, [live EXCEPT !.master = k], two, answers)
           [] OTHER ->
                Mut_CallIsMasterFrom_abort(k + 1, [live EXCEPT !.slaves = Append(@, k)], two, answers)

Mut_callIsMaster_abort(answers) ==
    LET r == Mut_CallIsMasterFrom_abort(1, NoLiveNodes, FALSE, answers)
    IN  [liveNodes |-> r.liveNodes,
         ret |-> IF r.twoPrimaries THEN 0 ELSE r.liveNodes.master]

\* the refresh without the twoPrimaries test
Mut_callIsMaster_noTwo(answers) ==
    LET r == CallIsMasterFrom(1, NoLiveNodes, FALSE, answers)
    IN  [liveNodes |-> r.liveNodes, ret |-> r.liveNodes.master]

\* _callIsMaster: self.liveNodes after the call, and the value returned
\* (0 stands for false).
_callIsMaster(answers) ==
    LET r == CallIsMasterFrom(1, NoLiveNodes, FALSE, answers)
    IN  [liveNodes |-> r.liveNodes,
         ret |-> IF r.twoPrimaries THEN 0 ELSE r.liveNodes.master]

(***************************************************************************)
(* assert.soonNoExcept(f, msg, timeout): f is called until it returns a     *)
(* truthy value; a call that throws counts as false; when the timeout has  *)
(* elapsed after a failed call, the wait fails.                            *)
(* pc: "idle", "start" (called, f not yet run), "waiting" (f has failed at *)
(* least once), "returned", "failed".                                      *)
(***************************************************************************)
Polling == pc \in {"start", "waiting"}
soonNoExcept(truthy) == IF truthy THEN "returned" ELSE "waiting"

(***************************************************************************)
(* checkReplicatedDataHashes: the values its locals have before a call.    *)
(***************************************************************************)
\* a collection a member does not have
NoColl ==
    [present |-> FALSE, hash |-> "", capped |-> FALSE, nindexes |-> 0, info |-> "",
     ns |-> ""]
\* Collection names
CollNames == {"a", "b"}
\* no database read
NoDB == [colls |-> [c \in CollNames |-> NoColl], md5 |-> ""]
\* The locals of checkDBHashes (primary, activeException) and of
\* checkDBHashesForReplSet (dbBlacklist, replSetPrimary for its primary,
\* success, hasDumpedOplog), todo for what the loop over combinedDBs still
\* has to visit, primaryDBHash for what the primary reported of the database
\* the loop is at, i for the position in dbHashes.slaves, error for the
\* exception the guarded block ended with.
NoCheck ==
    [dbBlacklist |-> <<>>, primary |-> 0, replSetPrimary |-> 0, todo |-> <<>>,
     primaryDBHash |-> NoDB, i |-> 0, success |-> TRUE, hasDumpedOplog |-> FALSE,
     activeException |-> FALSE, error |-> "none"]
\* The primary's fsync lock: the member that holds it (0: none), the number
\* of fsyncUnlock commands the call has issued, the member the call locked
\* and the member its last fsyncUnlock went to.
NoFsync == [held |-> 0, unlocks |-> 0, lockedOn |-> 0, unlockedOn |-> 0, unlockOk |-> TRUE]
\* The record of a call. differs: a secondary's database that was compared
\* was not the same as the primary's; detected: a comparison found one of the
\* differences the check looks for; failedQuery: a command failed or threw;
\* pairs: the comparisons made of databases with collections (2: two or
\* more); thenMatched: after a comparison that found a difference another
\* found none; dumped: the collections the last comparison handed to
\* dumpCollectionDiff at line 1019; hashedOn: the member the last res.master
\* of getHashes came from (0: none); excluded: the caller's excludedDBs;
\* primaryNames, secondaryNames: what the primary and what the secondaries
\* answered to getDBNames; hashed: the databases getHashes was called for
\* at line 982. dumped, excluded, primaryNames, secondaryNames and hashed
\* are kept where the members' data is pinned.
NoHashLog ==
    [differs |-> FALSE, detected |-> FALSE, failedQuery |-> FALSE, pairs |-> 0,
     thenMatched |-> FALSE, dumped |-> <<>>, hashedOn |-> 0, excluded |-> <<>>,
     primaryNames |-> {}, secondaryNames |-> {}, hashed |-> {}]

\* database names: what getDBNames answers, and the lists callers exclude
NameLists == {<<"local">>, <<"d1", "local">>, <<"d2", "local">>, <<"d1", "d2", "local">>}
ExcludedLists == {<<>>, <<"d1">>}
\* What the members hold when the check's queries are not pinned to one
\* primary database and one secondary database; nameLists: what a member may
\* answer to getDBNames.
NoDataSet == [pinned |-> FALSE, primary |-> NoDB, secondary |-> NoDB, nameLists |-> NameLists]
\* The locals of dumpCollectionDiff before a call (899-957); the indices are
\* the source's, counted from 0.
NoDiff ==
    [primaryDocs |-> <<>>, secondaryDocs |-> <<>>, primaryIndex |-> 0,
     secondaryIndex |-> 0, missingOnPrimary |-> <<>>, missingOnSecondary |-> <<>>]
\* ensureOplogsMatch before a call: logs[i] is the oplog of this.nodes[i-1],
\* readers counts the OplogReaders the call has made (and read the first
\* entry of), queried those it has positioned with query(), named is the
\* member the message of a failed assertion names (0: none).
NoOplogs == [logs |-> <<>>, readers |-> 0, queried |-> 0, named |-> 0]

\* What a member that is not the primary reports of itself in ismaster:
\* secondary: true, arbiterOnly: true, or neither (it is still recovering).
MemberRoles == {"secondary", "arbiter", "recovering"}
NoRoles == [n \in Nodes |-> "secondary"]
\* _waitForIndicator before a call: the nodes and the target state of each,
\* the position in the list (147-154), and the listed nodes the call has
\* found in their target state.
NoWait == [nodes |-> <<>>, states |-> <<>>, listed |-> FALSE, i |-> 0, found |-> <<>>]

\* the wait's timeout elapses
SoonTimeout ==
    /\ pc = "waiting"
    /\ pc' = "failed"
    /\ err' = "timeout"
    /\ UNCHANGED <<liveNodes, lastSeen, callRet, op, ret, ismaster>>
    /\ UNCHANGED notLeaderVars

\* The caller takes the outcome: the call's locals are gone and the harness is
\* free for the next operation.
Done ==
    /\ pc \in {"returned", "failed"}
    /\ pc' = "idle"
    /\ op' = "none"
    /\ ret' = 0
    /\ err' = "none"
    /\ masterOpTime' = Undefined
    /\ idx' = 0
    /\ passLog' = [seen |-> {}, ok |-> TRUE, arbiterBehind |-> FALSE]
    /\ targetLog' = [from |-> 0, polled |-> FALSE]
    /\ secondaryOpTimeType' = 0
    /\ masterLatestOpTime' = Undefined
    /\ configVersion' = 0
    /\ master' = 0
    /\ replLog' = [seen |-> {}, secondaryCount |-> 0, nonArbOk |-> TRUE,
                   arbOk |-> TRUE, arbiterOff |-> FALSE, event |-> "none",
                   hard |-> FALSE, target |-> Undefined]
    /\ check' = NoCheck
    /\ fsync' = NoFsync
    /\ hashLog' = NoHashLog
    /\ diff' = NoDiff
    /\ oplogs' = NoOplogs
    /\ wait' = NoWait
    /\ UNCHANGED <<liveNodes, lastSeen, callRet, ismaster, replSet, dataSet, roles>>
    /\ UNCHANGED <<otVars, agreeVars>>

\* a member changes what it answers to ismaster
EnvChange ==
    /\ \E n \in Nodes, a \in Answers :
        /\ ismaster[n] # a
        /\ ismaster' = [ismaster EXCEPT ![n] = a]
    /\ UNCHANGED harnessVars
    /\ UNCHANGED notLeaderVars

(***************************************************************************)
(* getPrimary and awaitNoPrimary.                                          *)
(***************************************************************************)
GetPrimaryCall ==
    /\ pc = "idle"
    /\ op' = "getPrimary"
    /\ pc' = "start"
    /\ ret' = 0
    /\ err' = "none"
    /\ UNCHANGED <<liveNodes, lastSeen, callRet, ismaster>>
    /\ UNCHANGED notLeaderVars

\* one call of getPrimary's predicate: primary = _callIsMaster(); return primary
GetPrimaryPoll ==
    /\ op = "getPrimary" /\ Polling
    /\ LET r == _callIsMaster(ismaster)
       IN  /\ liveNodes' = r.liveNodes
           /\ callRet' = r.ret
           /\ ret' = r.ret
           /\ pc' = soonNoExcept(r.ret # 0)
    /\ lastSeen' = ismaster
    /\ UNCHANGED <<op, err, ismaster>>
    /\ UNCHANGED notLeaderVars

AwaitNoPrimaryCall ==
    /\ pc = "idle"
    /\ op' = "awaitNoPrimary"
    /\ pc' = "start"
    /\ ret' = 0
    /\ err' = "none"
    /\ UNCHANGED <<liveNodes, lastSeen, callRet, ismaster>>
    /\ UNCHANGED notLeaderVars

\* one call of awaitNoPrimary's predicate: _callIsMaster() == false
AwaitNoPrimaryPoll ==
    /\ op = "awaitNoPrimary" /\ Polling
    /\ LET r == _callIsMaster(ismaster)
       IN  /\ liveNodes' = r.liveNodes
           /\ callRet' = r.ret
           /\ pc' = soonNoExcept(r.ret = 0)
    /\ lastSeen' = ismaster
    /\ UNCHANGED <<op, ret, err, ismaster>>
    /\ UNCHANGED notLeaderVars

(***************************************************************************)
(* Properties of the leadership refresh and the waits on it.               *)
(***************************************************************************)
Claimants == {n \in Nodes : lastSeen[n] = "master"}
SlaveSet == {liveNodes.slaves[k] : k \in 1 .. Len(liveNodes.slaves)}
\* a refresh has run in the operation in progress
Refreshed == op \in {"getPrimary", "awaitNoPrimary"} /\ pc \in {"waiting", "returned", "failed"}

\* C5: after a refresh in which two or more members report themselves leader,
\* the refresh reports no leader and liveNodes.master is empty.
C5_TwoLeadersNoLeaderInView ==
    (Refreshed /\ Cardinality(Claimants) >= 2) =>
        (callRet = 0 /\ liveNodes.master = 0)

\* C6: in a refresh a member whose role query throws is skipped and every
\* other member is still classified; a wait fails only by its timeout, and
\* getPrimary never returns from a refresh in which every member threw.
C6_ThrowingMemberSkipped ==
    /\ Refreshed =>
        /\ \A m \in Nodes : (lastSeen[m] = "slave") <=> (m \in SlaveSet)
        /\ \A m \in Nodes : lastSeen[m] = "throw" => (m \notin SlaveSet /\ liveNodes.master # m)
        /\ (Claimants # {}) <=> (liveNodes.master \in Claimants)
    /\ pc = "failed" => err = "timeout"
    /\ (op = "getPrimary" /\ pc = "returned") => (\E m \in Nodes : lastSeen[m] # "throw")

\* C6 witness: the first member threw, the later ones were classified, and
\* getPrimary returned the leader found behind it.
C6_Witness ==
    /\ op = "getPrimary" /\ pc = "returned"
    /\ lastSeen[1] = "throw"
    /\ \E m \in Nodes : m > 1 /\ lastSeen[m] = "slave" /\ m \in SlaveSet
    /\ ret > 1 /\ lastSeen[ret] = "master"

\* C7: getPrimary returns member m only if, in the refresh that ended the
\* wait, m reported itself leader and no other member did.
C7_GetPrimaryExactlyOneLeader ==
    (op = "getPrimary" /\ pc = "returned") =>
        (ret \in Nodes /\ Claimants = {ret})

\* C7 witness: getPrimary returned the second member, the only claimant of
\* the final refresh, the first member having answered as a secondary.
C7_Witness ==
    /\ op = "getPrimary" /\ pc = "returned"
    /\ ret = 2 /\ Claimants = {2}
    /\ lastSeen[1] = "slave"

\* C8: awaitNoPrimary returns only after a refresh in which no member reports
\* itself leader.
C8_AwaitNoPrimaryNoClaimant ==
    (op = "awaitNoPrimary" /\ pc = "returned") => Claimants = {}

(***************************************************************************)
(* awaitNodesAgreeOnPrimary.                                               *)
(***************************************************************************)
\* A node's answer to replSetGetStatus: the command throws (or answers
\* without a members array), or it lists a state for every member.
Unreachable == [ok |-> FALSE, members |-> <<>>]
MemberStates == {PRIMARY, SECONDARY}
StatusReplies ==
    {Unreachable} \cup {[ok |-> TRUE, members |-> m] : m \in [Nodes -> MemberStates]}

\* The inner loop over replSetGetStatus.members from index j on.
RECURSIVE NodesPrimaryFrom(_, _, _)
NodesPrimaryFrom(j, members, nodesPrimary) ==
    IF j > Len(members) THEN [two |-> FALSE, nodesPrimary |-> nodesPrimary]
    ELSE IF members[j] = PRIMARY
         THEN IF nodesPrimary # -1
              THEN [two |-> TRUE, nodesPrimary |-> nodesPrimary]
              ELSE NodesPrimaryFrom(j + 1, members, j)
         ELSE NodesPrimaryFrom(j + 1, members, nodesPrimary)

\* The outer loop over self.nodes from node i on; primary is the index the
\* nodes before i agreed on (-1: none yet).
RECURSIVE AgreeFrom(_, _, _)
AgreeFrom(i, primary, replies) ==
    IF i > NumNodes THEN Return(TRUE)
    ELSE IF ~replies[i].ok THEN Throw
    ELSE LET np == NodesPrimaryFrom(1, replies[i].members, -1)
         IN  IF np.two THEN Return(FALSE)
             ELSE IF np.nodesPrimary < 0 THEN Return(FALSE)
             ELSE IF primary < 0 THEN AgreeFrom(i + 1, np.nodesPrimary, replies)
             ELSE IF primary # np.nodesPrimary THEN Return(FALSE)
             ELSE AgreeFrom(i + 1, primary, replies)

\* the outer loop without the comparison of a node's primary with the others'
RECURSIVE Mut_AgreeFrom_noCompare(_, _, _)
Mut_AgreeFrom_noCompare(i, primary, replies) ==
    IF i > NumNodes THEN Return(TRUE)
    ELSE IF ~replies[i].ok THEN Throw
    ELSE LET np == NodesPrimaryFrom(1, replies[i].members, -1)
         IN  IF np.two THEN Return(FALSE)
             ELSE IF np.nodesPrimary < 0 THEN Return(FALSE)
             ELSE Mut_AgreeFrom_noCompare(i + 1, np.nodesPrimary, replies)

Mut_nodesAgreeOnPrimary_noCompare(replies) == Mut_AgreeFrom_noCompare(1, -1, replies)

\* the predicate awaitNodesAgreeOnPrimary waits for
nodesAgreeOnPrimary(replies) == AgreeFrom(1, -1, replies)

AwaitNodesAgreeOnPrimaryCall ==
    /\ pc = "idle"
    /\ op' = "awaitNodesAgreeOnPrimary"
    /\ pc' = "start"
    /\ ret' = 0
    /\ err' = "none"
    /\ UNCHANGED <<liveNodes, lastSeen, callRet, ismaster>>
    /\ UNCHANGED notLeaderVars

\* one call of the predicate; a throw counts as false
AwaitNodesAgreeOnPrimaryPoll ==
    /\ op = "awaitNodesAgreeOnPrimary" /\ Polling
    /\ LET r == nodesAgreeOnPrimary(status)
       IN  pc' = soonNoExcept(~r.threw /\ r.value)
    /\ UNCHANGED <<liveNodes, lastSeen, callRet, op, ret, err, ismaster>>
    /\ UNCHANGED notLeaderVars

\* While a wait is in progress, a node's view of one member changes, a node
\* becomes unreachable, or an unreachable node answers again.
StatusChange ==
    /\ pc \notin {"returned", "failed"}
    /\ \E n \in Nodes :
        \/ /\ status[n].ok
           /\ \E j \in Nodes, st \in MemberStates :
                /\ status[n].members[j] # st
                /\ status' = [status EXCEPT ![n].members[j] = st]
        \/ /\ status[n].ok
           /\ status' = [status EXCEPT ![n] = Unreachable]
        \/ /\ ~status[n].ok
           /\ \E r \in StatusReplies \ {Unreachable} :
                status' = [status EXCEPT ![n] = r]
    /\ UNCHANGED commitVars
    /\ UNCHANGED <<otVars, envVars, harnessVars, dataVars>>

\* the members node n's answer lists in PRIMARY state
PrimariesSeenBy(n) == {j \in Nodes : status[n].members[j] = PRIMARY}

\* C9: awaitNodesAgreeOnPrimary returns only after a pass in which every
\* node's own status lists exactly one member in PRIMARY state, the same
\* member for all nodes.
C9_AllNodesNameTheSamePrimary ==
    (op = "awaitNodesAgreeOnPrimary" /\ pc = "returned") =>
        /\ \A n \in Nodes : status[n].ok /\ Cardinality(PrimariesSeenBy(n)) = 1
        /\ \A n, m \in Nodes : PrimariesSeenBy(n) = PrimariesSeenBy(m)

\* C9 witness: the wait returned with every node naming the second member,
\* after at least one pass had failed.
C9_Witness ==
    /\ op = "awaitNodesAgreeOnPrimary" /\ pc = "returned"
    /\ \A n \in Nodes : status[n].ok /\ PrimariesSeenBy(n) = {2}

(***************************************************************************)
(* awaitLastOpCommitted.                                                   *)
(* pc: "gp_start", "gp_waiting" (in getPrimary), "read" (before            *)
(* _getLastOpTime), "start", "waiting" (between passes of the predicate),  *)
(* "pass" (inside a pass, at node idx).                                    *)
(***************************************************************************)
ZeroOpTime == OpTimeDoc(Timestamp(0, 0), 0)

\* A node's answer to replSetGetStatus as awaitLastOpCommitted reads it: the
\* command fails, or it carries myState (ARBITER or, standing for every other
\* state, SECONDARY) and, possibly, a readConcernMajorityOpTime.
CommitUnreachable == [ok |-> FALSE, myState |-> SECONDARY, rcm |-> Undefined]
CommitReplies ==
    {CommitUnreachable} \cup
    {[ok |-> TRUE, myState |-> st, rcm |-> o] :
        st \in {SECONDARY, ARBITER}, o \in OpTimeDocs \cup {Undefined}}

_getReadConcernMajorityOpTime(reply) ==
    IF ToBoolean(reply.rcm) THEN reply.rcm ELSE ZeroOpTime

\* the loop body with the operands of the comparison exchanged
Mut_CommittedNodeCheck_swapped(reply, T) ==
    IF ~reply.ok THEN "throw"
    ELSE IF reply.myState = ARBITER THEN "continue"
    ELSE LET rcmOpTime == _getReadConcernMajorityOpTime(reply)
         IN  IF friendlyEqual(rcmOpTime, ZeroOpTime) THEN "false"
             ELSE LET e == _isEarlierOpTime(T, rcmOpTime)
                  IN  IF e.threw THEN "throw"
                      ELSE IF e.value THEN "false" ELSE "continue"

\* The body of the predicate's loop for one node: "continue" (go on to the
\* next node), "false" (return false) or "throw".
CommittedNodeCheck(reply, T) ==
    IF ~reply.ok THEN "throw"
    ELSE IF reply.myState = ARBITER THEN "continue"
    ELSE LET rcmOpTime == _getReadConcernMajorityOpTime(reply)
         IN  IF friendlyEqual(rcmOpTime, ZeroOpTime) THEN "false"
             ELSE LET e == _isEarlierOpTime(rcmOpTime, T)
                  IN  IF e.threw THEN "throw"
                      ELSE IF e.value THEN "false" ELSE "continue"

\* What a pass has found at a node, in terms of the specified ordering.
Classify(reply, T) ==
    LET rcmOpTime == IF reply.rcm = Undefined THEN ZeroOpTime ELSE reply.rcm
    IN  IF ~reply.ok THEN "unreachable"
        ELSE IF reply.myState = ARBITER
             THEN IF SpecEarlier(rcmOpTime, T) THEN "arbiterBehind" ELSE "arbiter"
             ELSE IF SpecEarlier(rcmOpTime, T) THEN "behind" ELSE "committed"

\* The record of a pass: the nodes it has been at, whether each of them was
\* an arbiter or had committed T, and whether an arbiter among them was behind.
NothingSeen == [seen |-> {}, ok |-> TRUE, arbiterBehind |-> FALSE]

\* The origin of the target: the node masterOpTime was read from (0: not read
\* yet), and whether a pass has begun since the set's leader last changed.
NotRead == [from |-> 0, polled |-> FALSE]
LogNode(log, n, kind) ==
    [seen |-> log.seen \cup {n},
     ok |-> log.ok /\ kind \in {"arbiter", "arbiterBehind", "committed"},
     arbiterBehind |-> log.arbiterBehind \/ kind = "arbiterBehind"]

AwaitLastOpCommittedCall ==
    /\ pc = "idle"
    /\ op' = "awaitLastOpCommitted"
    /\ pc' = "gp_start"
    /\ ret' = 0
    /\ err' = "none"
    /\ masterOpTime' = Undefined
    /\ idx' = 0
    /\ passLog' = NothingSeen
    /\ targetLog' = NotRead
    /\ UNCHANGED <<liveNodes, lastSeen, callRet, ismaster>>
    /\ UNCHANGED <<otVars, agreeVars, dataVars>>

\* var master = rst.getPrimary(): one call of getPrimary's predicate
CommittedGetPrimaryPoll ==
    /\ op = "awaitLastOpCommitted" /\ pc \in {"gp_start", "gp_waiting"}
    /\ LET r == _callIsMaster(ismaster)
       IN  /\ liveNodes' = r.liveNodes
           /\ callRet' = r.ret
           /\ pc' = IF r.ret # 0 THEN "read" ELSE "gp_waiting"
    /\ lastSeen' = ismaster
    /\ UNCHANGED <<op, ret, err, ismaster>>
    /\ UNCHANGED <<otVars, agreeVars, commitVars, dataVars>>

\* getPrimary's wait times out
CommittedGetPrimaryTimeout ==
    /\ op = "awaitLastOpCommitted" /\ pc = "gp_waiting"
    /\ pc' = "failed"
    /\ err' = "timeout"
    /\ UNCHANGED <<liveNodes, lastSeen, callRet, op, ret, ismaster>>
    /\ UNCHANGED <<otVars, agreeVars, commitVars, dataVars>>

\* var masterOpTime = _getLastOpTime(master): the command fails, or the
\* primary reports its optime
CommittedReadOpTime ==
    /\ op = "awaitLastOpCommitted" /\ pc = "read"
    /\ \/ /\ pc' = "failed"
          /\ err' = "query"
          /\ UNCHANGED <<masterOpTime, targetLog>>
       \/ /\ \E T \in OpTimes : masterOpTime' = T
          /\ targetLog' = [from |-> callRet, polled |-> FALSE]
          /\ pc' = "start"
          /\ UNCHANGED err
    /\ UNCHANGED <<idx, passLog>>
    /\ UNCHANGED <<liveNodes, lastSeen, callRet, op, ret, ismaster>>
    /\ UNCHANGED <<otVars, agreeVars, dataVars>>

\* the member that alone answers ismaster: true (0: there is none)
EnvLeader ==
    IF Cardinality({n \in Nodes : ismaster[n] = "master"}) = 1
    THEN CHOOSE n \in Nodes : ismaster[n] = "master"
    ELSE 0

\* the loop step with the target read again from the set's leader whenever a
\* pass begins
Mut_CommittedCheckNode_reread ==
    /\ op = "awaitLastOpCommitted" /\ pc \in {"start", "waiting", "pass"}
    /\ \E reply \in CommitReplies, T \in OpTimes :
        LET i == IF pc = "pass" THEN idx ELSE 1
            log == IF pc = "pass" THEN passLog ELSE NothingSeen
            target == IF pc = "pass" \/ EnvLeader = 0 THEN masterOpTime ELSE T
            out == CommittedNodeCheck(reply, target)
        IN  /\ masterOpTime' = target
            /\ targetLog' = [from |-> IF pc = "pass" \/ EnvLeader = 0
                                      THEN targetLog.from ELSE EnvLeader,
                             polled |-> TRUE]
            /\ passLog' = LogNode(log, i, Classify(reply, target))
            /\ IF out = "continue"
               THEN IF i = NumNodes
                    THEN pc' = "returned" /\ ret' = target /\ idx' = 0
                    ELSE pc' = "pass" /\ idx' = i + 1 /\ UNCHANGED ret
               ELSE pc' = soonNoExcept(FALSE) /\ idx' = 0 /\ UNCHANGED ret
    /\ UNCHANGED <<liveNodes, lastSeen, callRet, op, err, ismaster>>
    /\ UNCHANGED <<otVars, agreeVars, dataVars>>

\* The predicate's loop at one node: the first node of a new pass when no
\* pass is in progress, node idx otherwise.
CommittedCheckNode ==
    /\ op = "awaitLastOpCommitted" /\ pc \in {"start", "waiting", "pass"}
    /\ \E reply \in CommitReplies :
        LET i == IF pc = "pass" THEN idx ELSE 1
            log == IF pc = "pass" THEN passLog ELSE NothingSeen
            out == CommittedNodeCheck(reply, masterOpTime)
        IN  /\ passLog' = LogNode(log, i, Classify(reply, masterOpTime))
            /\ IF out = "continue"
               THEN IF i = NumNodes
                    THEN pc' = "returned" /\ ret' = masterOpTime /\ idx' = 0
                    ELSE pc' = "pass" /\ idx' = i + 1 /\ UNCHANGED ret
               ELSE pc' = soonNoExcept(FALSE) /\ idx' = 0 /\ UNCHANGED ret
    /\ targetLog' = [targetLog EXCEPT !.polled = @ \/ pc # "pass"]
    /\ UNCHANGED masterOpTime
    /\ UNCHANGED <<liveNodes, lastSeen, callRet, op, err, ismaster>>
    /\ UNCHANGED <<otVars, agreeVars, dataVars>>

\* a member changes what it answers to ismaster before the primary is found
CommittedEnvChange ==
    /\ pc \in {"idle", "gp_start", "gp_waiting"}
    /\ EnvChange

\* While awaitLastOpCommitted polls, the leader steps down and another member
\* takes over.
CommittedLeaderChange ==
    /\ op = "awaitLastOpCommitted" /\ pc \in {"start", "waiting", "pass"}
    /\ EnvLeader # 0
    /\ \E n \in Nodes :
        /\ ismaster[n] = "slave"
        /\ ismaster' = [ismaster EXCEPT ![EnvLeader] = "slave", ![n] = "master"]
    /\ targetLog' = [targetLog EXCEPT !.polled = FALSE]
    /\ UNCHANGED <<masterOpTime, idx, passLog>>
    /\ UNCHANGED harnessVars
    /\ UNCHANGED <<otVars, agreeVars, dataVars>>

\* C10: awaitLastOpCommitted returns the optime T read from the primary at
\* the start, and only at the end of a pass in which every member was either
\* an arbiter (not examined) or had a majority-committed optime not earlier
\* than T.
C10_AllCommittedAtReturn ==
    (op = "awaitLastOpCommitted" /\ pc = "returned") =>
        /\ ret = masterOpTime
        /\ masterOpTime \in OpTimes
        /\ passLog.seen = Nodes
        /\ passLog.ok

\* C10 witness: the wait returned T, a term-bearing optime with a non-zero
\* timestamp, from a pass over all members in which an arbiter's own optime
\* was behind T.
C10_Witness ==
    /\ op = "awaitLastOpCommitted" /\ pc = "returned"
    /\ HasTerm(masterOpTime) /\ masterOpTime.ts # Timestamp(0, 0)
    /\ ret = masterOpTime
    /\ passLog.seen = Nodes /\ passLog.ok /\ passLog.arbiterBehind
    /\ lastSeen[callRet] = "master"

\* awaitLastOpCommitted is polling (its wait has begun and not ended)
CommittedWaiting == op = "awaitLastOpCommitted" /\ pc \in {"start", "waiting", "pass"}

\* C11 (as stated): if the leader changes while awaitLastOpCommitted is
\* waiting, the target the members are compared against is re-read from the new
\* leader on a later poll: when the wait returns from a pass begun after the
\* last change of leader, its target is the one read from the member that is
\* leader then.
C11_TargetRereadFromNewLeader ==
    (op = "awaitLastOpCommitted" /\ pc = "returned" /\ targetLog.polled /\ EnvLeader # 0) =>
        targetLog.from = EnvLeader

\* C11 (amended): while awaitLastOpCommitted is waiting, every step, a change
\* of leader included, leaves the target the optime read from the leader found
\* at the start; a change of leader leaves the wait where it is, and the wait
\* fails by its timeout only.
C11_TargetKeptAcrossLeaderChange ==
    [][CommittedWaiting =>
          /\ masterOpTime' = masterOpTime
          /\ targetLog'.from = targetLog.from
          /\ targetLog.from = callRet
          /\ (EnvLeader' # EnvLeader => (pc' = pc /\ err' = err))
          /\ (pc' = "failed" => err' = "timeout")]_vars

\* C11 witness: the wait returned the optime read from the first leader, from
\* a pass begun after another member had become leader.
C11_Witness ==
    /\ op = "awaitLastOpCommitted" /\ pc = "returned"
    /\ targetLog.polled
    /\ EnvLeader # 0 /\ EnvLeader # targetLog.from
    /\ targetLog.from = callRet
    /\ ret = masterOpTime /\ masterOpTime \in OpTimes

(***************************************************************************)
(* awaitReplication.                                                       *)
(* pc: "written0" (in awaitLastOpTimeWrittenFn, called at the start),      *)
(* "config" (reading the primary and its config version), "start",         *)
(* "waiting" (between passes of the predicate), "pass" (inside a pass, at  *)
(* position idx of self.liveNodes.slaves), "written1" (in                  *)
(* awaitLastOpTimeWrittenFn, called from the predicate's catch block).     *)
(* The local masterOpTime (lines 743, 750, 784) is only printed and is not *)
(* kept.                                                                   *)
(***************************************************************************)
\* ReplSetTest.OpTimeType
LAST_APPLIED == 1
LAST_DURABLE == 2

Versions == 1 .. MaxVersion

\* a command that threw instead of answering
NoAnswer == [type |-> "none"]
\* a call that threw
Thrown == [type |-> "thrown"]

\* The optimes a member reports: an optime document or (protocol version 0)
\* a bare Timestamp; awaitReplication never looks at the term.
ReplOpTimes == Timestamps \cup {OpTimeDoc(ts, 0) : ts \in Timestamps}

\* What a member answers to the queries awaitReplication sends it: the config
\* version in local.system.replset, myState of replSetGetStatus, its own
\* optime in members[], and optimes.durableOpTime. fails names the first query
\* that throws (hard: by a failure that is not transient).
Member(f, h, v, st, o, d) ==
    [fails |-> f, hard |-> h, version |-> v, myState |-> st, optime |-> o,
     durableOpTime |-> d]

\* Any answer of a secondary to a call that waits for optimes of kind type;
\* what the call does not get to read is left out.
AnyAnswers(type) ==
    {Member("version", h, 1, st, NoAnswer, NoAnswer) :
        h \in BOOLEAN, st \in {SECONDARY, ARBITER}}
    \cup {Member("status", h, v, st, NoAnswer, NoAnswer) :
        h \in BOOLEAN, v \in Versions, st \in {SECONDARY, ARBITER}}
    \cup {Member("optime", h, v, SECONDARY, NoAnswer, NoAnswer) :
        h \in BOOLEAN, v \in Versions}
    \cup {Member("none", FALSE, v, st, o, NoAnswer) :
        v \in Versions, st \in {SECONDARY, ARBITER},
        o \in IF type = LAST_APPLIED THEN ReplOpTimes \cup {Undefined} ELSE {}}
    \cup {Member("none", FALSE, v, st, NoAnswer, d) :
        v \in Versions, st \in {SECONDARY, ARBITER},
        d \in IF type = LAST_DURABLE THEN ReplOpTimes \cup {Undefined} ELSE {}}

\* The replica set as awaitReplication's queries find it: nothing is known
\* about the members' answers (pinned FALSE), or every member answers from
\* its record in nodes, which changes only while changing holds.
Unpinned == Member("none", FALSE, 1, SECONDARY, Undefined, Undefined)
AnyReplSet == [pinned |-> FALSE, changing |-> FALSE, nodes |-> [n \in Nodes |-> Unpinned]]

\* a member that cannot be reached throws at the first query sent to it
SlaveAnswers(n, type) ==
    IF replSet.pinned
    THEN {IF ismaster[n] = "throw" THEN [replSet.nodes[n] EXCEPT !.fails = "version"]
          ELSE replSet.nodes[n]}
    ELSE AnyAnswers(type)
\* the primary's answers for its own optime and for its config version (0: the
\* query throws)
MasterOpTimeAnswers(n) ==
    IF replSet.pinned
    THEN {IF ismaster[n] = "throw" THEN NoAnswer ELSE replSet.nodes[n].optime}
    ELSE ReplOpTimes \cup {Undefined, NoAnswer}
MasterVersionAnswers(n) ==
    IF replSet.pinned
    THEN {IF ismaster[n] = "throw" THEN 0 ELSE replSet.nodes[n].version}
    ELSE Versions \cup {0}

\* _getLastOpTimeTimestamp returning the optime as it is read
Mut__getLastOpTimeTimestamp_whole(myOpTime) ==
    IF myOpTime = NoAnswer THEN Thrown
    ELSE IF ~ToBoolean(myOpTime) THEN Undefined
    ELSE myOpTime

\* _getLastOpTimeTimestamp, given the member's own optime of replSetGetStatus
_getLastOpTimeTimestamp(myOpTime) ==
    IF myOpTime = NoAnswer THEN Thrown
    ELSE IF ~ToBoolean(myOpTime) THEN Undefined
    ELSE IF ToBoolean(PropTs(myOpTime)) THEN PropTs(myOpTime) ELSE myOpTime

\* _getDurableOpTimeTimestamp, given optimes.durableOpTime (or appliedOpTime)
\* of replSetGetStatus: reading .ts of a missing document throws
_getDurableOpTimeTimestamp(durable) ==
    IF durable = NoAnswer \/ durable = Undefined THEN Thrown
    ELSE PropTs(durable)

\* getPrimary while the members answer ismaster as in answers: the primary of
\* the refresh, or, no refresh finding one, the timeout of its wait.
getPrimary(answers) ==
    LET r == _callIsMaster(answers)
    IN  [threw |-> r.ret = 0, liveNodes |-> r.liveNodes, primary |-> r.ret]

\* the loop body with a secondary that is ahead of the target taken as synced
Mut_ReplNodeCheck_aheadSynced(reply, target, version, type) ==
    IF reply.fails = "version" THEN "throw"
    ELSE IF version # reply.version
         THEN IF reply.version > version THEN "greater" ELSE "lower"
    ELSE IF reply.fails = "status" THEN "throw"
    ELSE IF reply.myState = ARBITER THEN "continue"
    ELSE IF reply.fails = "optime" THEN "throw"
    ELSE LET ts == IF type = LAST_DURABLE
                   THEN _getDurableOpTimeTimestamp(reply.durableOpTime)
                   ELSE _getLastOpTimeTimestamp(reply.optime)
         IN  IF ts = Thrown THEN "throw"
             ELSE IF target.type # "Timestamp" \/ ts.type # "Timestamp" THEN "throw"
             ELSE IF JsLess(target.t, ts.t) \/
                     (friendlyEqual(target.t, ts.t) /\ JsLess(target.i, ts.i))
                  THEN "continue"
             ELSE IF ~friendlyEqual(target, ts) THEN "behind"
             ELSE "continue"

\* the loop body without the comparison of line 821
Mut_ReplNodeCheck_behindSynced(reply, target, version, type) ==
    IF reply.fails = "version" THEN "throw"
    ELSE IF version # reply.version
         THEN IF reply.version > version THEN "greater" ELSE "lower"
    ELSE IF reply.fails = "status" THEN "throw"
    ELSE IF reply.myState = ARBITER THEN "continue"
    ELSE IF reply.fails = "optime" THEN "throw"
    ELSE LET ts == IF type = LAST_DURABLE
                   THEN _getDurableOpTimeTimestamp(reply.durableOpTime)
                   ELSE _getLastOpTimeTimestamp(reply.optime)
         IN  IF ts = Thrown THEN "throw"
             ELSE IF target.type # "Timestamp" \/ ts.type # "Timestamp" THEN "throw"
             ELSE IF JsLess(target.t, ts.t) \/
                     (friendlyEqual(target.t, ts.t) /\ JsLess(target.i, ts.i))
                  THEN "newer"
             ELSE "continue"

\* the loop body without the test for an arbiter
Mut_ReplNodeCheck_noSkip(reply, target, version, type) ==
    IF reply.fails = "version" THEN "throw"
    ELSE IF version # reply.version
         THEN IF reply.version > version THEN "greater" ELSE "lower"
    ELSE IF reply.fails = "status" THEN "throw"
    ELSE IF reply.fails = "optime" THEN "throw"
    ELSE LET ts == IF type = LAST_DURABLE
                   THEN _getDurableOpTimeTimestamp(reply.durableOpTime)
                   ELSE _getLastOpTimeTimestamp(reply.optime)
         IN  IF ts = Thrown THEN "throw"
             ELSE IF target.type # "Timestamp" \/ ts.type # "Timestamp" THEN "throw"
             ELSE IF JsLess(target.t, ts.t) \/
                     (friendlyEqual(target.t, ts.t) /\ JsLess(target.i, ts.i))
                  THEN "newer"
             ELSE IF ~friendlyEqual(target, ts) THEN "behind"
             ELSE "continue"

\* The body of the predicate's loop for one secondary (lines 769-831), target
\* being masterLatestOpTime and version configVersion: "continue" (on to the
\* next secondary), "lower" and "behind" (return false), "greater" (the config
\* version is to be re-read), "newer" (the target is re-read) or "throw".
\* Reading .t of undefined throws a TypeError.
ReplNodeCheck(reply, target, version, type) ==
    IF reply.fails = "version" THEN "throw"
    ELSE IF version # reply.version
         THEN IF reply.version > version THEN "greater" ELSE "lower"
    ELSE IF reply.fails = "status" THEN "throw"
    ELSE IF reply.myState = ARBITER THEN "continue"
    ELSE IF reply.fails = "optime" THEN "throw"
    ELSE LET ts == IF type = LAST_DURABLE
                   THEN _getDurableOpTimeTimestamp(reply.durableOpTime)
                   ELSE _getLastOpTimeTimestamp(reply.optime)
         IN  IF ts = Thrown THEN "throw"
             ELSE IF target.type # "Timestamp" \/ ts.type # "Timestamp" THEN "throw"
             ELSE IF JsLess(target.t, ts.t) \/
                     (friendlyEqual(target.t, ts.t) /\ JsLess(target.i, ts.i))
                  THEN "newer"
             ELSE IF ~friendlyEqual(target, ts) THEN "behind"
             ELSE "continue"

\* the predicate without its try/catch: what a query throws reaches the caller
Mut_ReplPassEnd_noCatch(out) ==
    CASE out \in {"lower", "behind"} -> soonNoExcept(FALSE)
      [] out = "greater" -> "written1"
      [] OTHER -> "failed"

\* Where a pass goes when a secondary ends it. "greater": line 781 calls
\* this.getPrimary() in the callback handed to assert.soonNoExcept, a plain
\* function that is not called on the ReplSetTest object, so the call throws a
\* TypeError; as every exception in the predicate it is caught at line 837,
\* where awaitLastOpTimeWrittenFn is called before the predicate returns
\* false.
ReplPassEnd(out) ==
    CASE out \in {"lower", "behind"} -> soonNoExcept(FALSE)
      [] OTHER -> "written1"

\* the target kept when a secondary is ahead of it
Mut_ReplNewerTarget_keep(target, read) == target

\* line 815: the target after a secondary was found ahead of it, read being
\* what _getLastOpTimeTimestamp(master) returned
ReplNewerTarget(target, read) == read

\* The record of a pass. seen: the secondaries it has been at; secondaryCount:
\* the local of line 767, the number of them that were no arbiters; nonArbOk: each
\* of them that is no arbiter answered every query and reported the recorded
\* config version and an optime equal to the target; arbOk: each arbiter among
\* them answered and reported the recorded config version; arbiterOff: an
\* arbiter among them reported an optime other than the target; event: what
\* the last secondary did to the pass, hard: by a failure that is not
\* transient; target: the target at the beginning of the pass. Of a pass that
\* a secondary has ended, nonArbOk, arbOk, event and hard are kept, and seen
\* if that secondary was the last of the list.
NoReplLog ==
    [seen |-> {}, secondaryCount |-> 0, nonArbOk |-> TRUE, arbOk |-> TRUE,
     arbiterOff |-> FALSE, event |-> "none", hard |-> FALSE, target |-> Undefined]

\* the optime a member reports for a call that waits for kind type
Reported(reply, type) ==
    IF type = LAST_DURABLE THEN reply.durableOpTime ELSE reply.optime
\* the member reported exactly the target: as the timestamp of an optime
\* document or, its own optime being asked for, as a bare Timestamp
ReportedTarget(reply, type, target) ==
    /\ Reported(reply, type).type \in
            (IF type = LAST_DURABLE THEN {"object"} ELSE {"object", "Timestamp"})
    /\ TsOf(Reported(reply, type)) = target

LogSlave(log, n, reply, out, target, version, type) ==
    LET arb == reply.myState = ARBITER
    IN  [seen |-> log.seen \cup {n},
         secondaryCount |-> IF /\ reply.fails \notin {"version", "status"}
                               /\ reply.version = version
                               /\ ~arb
                            THEN log.secondaryCount + 1 ELSE log.secondaryCount,
         nonArbOk |-> log.nonArbOk /\
                      (arb \/ (/\ reply.fails = "none"
                               /\ reply.version = version
                               /\ ReportedTarget(reply, type, target))),
         arbOk |-> log.arbOk /\
                   (~arb \/ (reply.fails = "none" /\ reply.version = version)),
         arbiterOff |-> log.arbiterOff \/
                        (arb /\ reply.fails = "none" /\ ~ReportedTarget(reply, type, target)),
         event |-> out,
         hard |-> out = "throw" /\ reply.hard,
         target |-> log.target]

RangeOf(seq) == {seq[k] : k \in 1 .. Len(seq)}

\* what is kept of the record of a pass that a secondary of the list slaves
\* has ended
Ended(log, slaves) ==
    [log EXCEPT !.seen = IF @ = RangeOf(slaves) THEN @ ELSE {},
                !.secondaryCount = 0, !.arbiterOff = FALSE, !.target = Undefined]

\* awaitReplication(timeout, secondaryOpTimeType); a type left out is
\* LAST_APPLIED
AwaitReplicationCall ==
    /\ pc = "idle"
    /\ op' = "awaitReplication"
    /\ pc' = "written0"
    /\ ret' = 0
    /\ err' = "none"
    /\ \E type \in {0, LAST_APPLIED, LAST_DURABLE} :
        secondaryOpTimeType' = IF type = 0 THEN LAST_APPLIED ELSE type
    /\ masterLatestOpTime' = Undefined
    /\ configVersion' = 0
    /\ master' = 0
    /\ idx' = 0
    /\ replLog' = NoReplLog
    /\ UNCHANGED <<liveNodes, lastSeen, callRet, ismaster, replSet>>
    /\ UNCHANGED <<masterOpTime, passLog, targetLog>>
    /\ UNCHANGED <<otVars, agreeVars, hashVars, toolVars>>

\* awaitLastOpTimeWrittenFn: getPrimary, then the wait for the primary's
\* optime to be read, which sets the target. Called at line 738, what it
\* throws ends awaitReplication; called at line 841, in the predicate's catch
\* block, the predicate ends false, or throws, which counts as false.
ReplLastOpTimeWritten ==
    /\ op = "awaitReplication" /\ pc \in {"written0", "written1"}
    /\ LET gp == getPrimary(ismaster)
           first == pc = "written0"
       IN  /\ liveNodes' = gp.liveNodes
           /\ callRet' = gp.primary
           /\ IF gp.threw
              THEN /\ pc' = IF first THEN "failed" ELSE soonNoExcept(FALSE)
                   /\ err' = IF first THEN "timeout" ELSE err
                   /\ UNCHANGED masterLatestOpTime
              ELSE \E o \in MasterOpTimeAnswers(gp.primary) :
                     LET read == _getLastOpTimeTimestamp(o)
                     IN  IF read = Thrown
                         THEN /\ pc' = IF first THEN "failed" ELSE soonNoExcept(FALSE)
                              /\ err' = IF first THEN "timeout" ELSE err
                              /\ UNCHANGED masterLatestOpTime
                         ELSE /\ pc' = IF first THEN "config" ELSE soonNoExcept(FALSE)
                              /\ masterLatestOpTime' = read
                              /\ UNCHANGED err
    /\ lastSeen' = ismaster
    /\ UNCHANGED <<op, ret, ismaster, replSet>>
    /\ UNCHANGED <<secondaryOpTimeType, configVersion, master, replLog>>
    /\ UNCHANGED <<otVars, agreeVars, commitVars, hashVars, toolVars>>

\* Lines 747-757: the primary, its config version and its optime are read; if
\* one of the reads throws all are tried once more, and what is thrown then
\* ends awaitReplication.
ReplReadConfig ==
    /\ op = "awaitReplication" /\ pc = "config"
    /\ LET gp == getPrimary(ismaster)
       IN  /\ liveNodes' = gp.liveNodes
           /\ callRet' = gp.primary
           /\ IF gp.threw
              THEN /\ pc' = "failed"
                   /\ err' = "timeout"
                   /\ UNCHANGED <<configVersion, master>>
              ELSE \E v \in MasterVersionAnswers(gp.primary),
                      o \in MasterOpTimeAnswers(gp.primary) :
                     IF v # 0 /\ _getLastOpTimeTimestamp(o) # Thrown
                     THEN /\ master' = gp.primary
                          /\ configVersion' = v
                          /\ pc' = "start"
                          /\ UNCHANGED err
                     ELSE /\ pc' = "failed"
                          /\ err' = "query"
                          /\ UNCHANGED <<configVersion, master>>
    /\ lastSeen' = ismaster
    /\ UNCHANGED <<op, ret, ismaster, replSet>>
    /\ UNCHANGED <<secondaryOpTimeType, masterLatestOpTime, replLog>>
    /\ UNCHANGED <<otVars, agreeVars, commitVars, hashVars, toolVars>>

\* The predicate's loop at one secondary: the first of self.liveNodes.slaves
\* when no pass is in progress, the one at position idx otherwise; with no
\* secondary in the list the predicate returns true at once.
ReplCheckNode ==
    /\ op = "awaitReplication" /\ pc \in {"start", "waiting", "pass"}
    /\ LET i == IF pc = "pass" THEN idx ELSE 1
           log == IF pc = "pass" THEN replLog
                  ELSE [NoReplLog EXCEPT !.target = masterLatestOpTime]
       IN  IF i > Len(liveNodes.slaves)
           THEN /\ pc' = "returned"
                /\ idx' = 0
                /\ replLog' = log
                /\ UNCHANGED masterLatestOpTime
           ELSE \E reply \in SlaveAnswers(liveNodes.slaves[i], secondaryOpTimeType) :
                LET out == ReplNodeCheck(reply, masterLatestOpTime, configVersion,
                                         secondaryOpTimeType)
                    logged == LogSlave(log, liveNodes.slaves[i], reply, out,
                                       masterLatestOpTime, configVersion,
                                       secondaryOpTimeType)
                IN  /\ replLog' = IF out = "continue" THEN logged
                                   ELSE Ended(logged, liveNodes.slaves)
                    /\ IF out = "continue"
                       THEN /\ IF i = Len(liveNodes.slaves)
                               THEN pc' = "returned" /\ idx' = 0
                               ELSE pc' = "pass" /\ idx' = i + 1
                            /\ UNCHANGED masterLatestOpTime
                       ELSE IF out = "newer"
                       THEN /\ idx' = 0
                            /\ \E o \in MasterOpTimeAnswers(master) :
                                LET read == _getLastOpTimeTimestamp(o)
                                IN  IF read = Thrown
                                    THEN /\ pc' = ReplPassEnd("throw")
                                         /\ UNCHANGED masterLatestOpTime
                                    ELSE /\ pc' = soonNoExcept(FALSE)
                                         /\ masterLatestOpTime' =
                                                ReplNewerTarget(masterLatestOpTime, read)
                       ELSE /\ idx' = 0
                            /\ pc' = ReplPassEnd(out)
                            /\ UNCHANGED masterLatestOpTime
    /\ UNCHANGED <<liveNodes, lastSeen, callRet, op, ret, err, ismaster, replSet>>
    /\ UNCHANGED <<secondaryOpTimeType, configVersion, master>>
    /\ UNCHANGED <<masterOpTime, passLog, targetLog>>
    /\ UNCHANGED <<otVars, agreeVars, hashVars, toolVars>>

(***************************************************************************)
(* A replica set in a known state: one primary, the other members          *)
(* secondaries or arbiters, all answering; a secondary's config version and *)
(* optime are the primary's or the ones before.                            *)
(***************************************************************************)
TopTs == Timestamp(MaxTerm + MaxSecs, MaxInc)
PrevTs == Timestamp(MaxTerm + MaxSecs, MaxInc - 1)
TopOpTime == OpTimeDoc(TopTs, MaxTerm)
PrevOpTime == OpTimeDoc(PrevTs, MaxTerm)

KnownMembers ==
    {Member("none", FALSE, v, st, o, o) :
        v \in {MaxVersion - 1, MaxVersion}, st \in {PRIMARY, SECONDARY},
        o \in {PrevOpTime, TopOpTime}}
    \cup {Member("none", FALSE, v, ARBITER, Undefined, Undefined) :
        v \in {MaxVersion - 1, MaxVersion}}

\* the member sets in which the members answering ismaster: true in view, and
\* only they, are in PRIMARY state, and no member is ahead of a primary
KnownSets(view) ==
    {f \in [Nodes -> KnownMembers] :
        /\ \A n \in Nodes : (view[n] = "master") <=> (f[n].myState = PRIMARY)
        /\ \A n, m \in Nodes :
            (f[m].myState = PRIMARY /\ f[n].myState # PRIMARY) =>
                /\ f[n].version <= f[m].version
                /\ f[n].myState = SECONDARY => ~TsLess(f[m].optime.ts, f[n].optime.ts)}

ReplSetMoves ==
    /\ op = "awaitReplication" /\ pc \notin {"returned", "failed"}
    /\ replSet.pinned /\ replSet.changing
    /\ EnvLeader # 0

\* the primary applies an operation, or a secondary catches up with it
ReplSetAdvance ==
    /\ ReplSetMoves
    /\ \E n \in Nodes :
        /\ replSet.nodes[n].optime = PrevOpTime
        /\ n = EnvLeader \/ replSet.nodes[EnvLeader].optime = TopOpTime
        /\ replSet' = [replSet EXCEPT !.nodes[n].optime = TopOpTime,
                                      !.nodes[n].durableOpTime = TopOpTime]
    /\ UNCHANGED <<secondaryOpTimeType, masterLatestOpTime, configVersion, master, replLog>>
    /\ UNCHANGED <<envVars, harnessVars>>
    /\ UNCHANGED <<otVars, agreeVars, commitVars, hashVars, toolVars>>

\* the primary takes a new config, or another member receives it
ReplSetReconfig ==
    /\ ReplSetMoves
    /\ \E n \in Nodes :
        /\ replSet.nodes[n].version < MaxVersion
        /\ n = EnvLeader \/ replSet.nodes[EnvLeader].version = MaxVersion
        /\ replSet' = [replSet EXCEPT !.nodes[n].version = MaxVersion]
    /\ UNCHANGED <<secondaryOpTimeType, masterLatestOpTime, configVersion, master, replLog>>
    /\ UNCHANGED <<envVars, harnessVars>>
    /\ UNCHANGED <<otVars, agreeVars, commitVars, hashVars, toolVars>>

(***************************************************************************)
(* checkReplicatedDataHashes.                                              *)
(* pc: "lock" (the primary is known and indexing flushed; fsync lock is    *)
(* next), "await" (awaitReplication is next), "dbnames"                    *)
(* (checkDBHashesForReplSet begins), "db" (at the head of the loop over    *)
(* combinedDBs), "slave" (at position check.i of the secondaries),         *)
(* "unlock" (the finally block).                                           *)
(* awaitReplication, called at line 1144, is taken here by its outcome     *)
(* only. The documents that dumpCollectionDiff and dumpOplog print are     *)
(* left out.                                                               *)
(***************************************************************************)
\* The values dbhash, getCollectionInfos and collStats report for a
\* collection. The check only tests them for equality, so the primary's
\* hashes, index counts and infos are the first of each.
CollHashes == {"h1", "h2"}
IndexCounts == {1, 2}
CollInfos == {"i1", "i2"}
DBHashes == {"m1", "m2"}

\* a collection: its hash in dbhash, capped, nindexes and ns of collStats,
\* its entry in getCollectionInfos
CollNs(h, c, n, i, ns) ==
    [present |-> TRUE, hash |-> h, capped |-> c, nindexes |-> n, info |-> i, ns |-> ns]
Coll(h, c, n, i) == CollNs(h, c, n, i, "ns1")
PrimaryColls == {NoColl} \cup {Coll("h1", c, 1, "i1") : c \in BOOLEAN}
SecondaryColls ==
    {NoColl} \cup {Coll(h, c, n, i) :
                      h \in CollHashes, c \in BOOLEAN, n \in IndexCounts, i \in CollInfos}

\* a database as a member holds it: its collections and the md5 of dbhash
PrimaryDBs == {[colls |-> f, md5 |-> "m1"] : f \in [CollNames -> PrimaryColls]}
SecondaryDBs == {[colls |-> f, md5 |-> m] : f \in [CollNames -> SecondaryColls], m \in DBHashes}

\* Object.keys(dbHash.collections)
Keys(db) == {c \in CollNames : db.colls[c].present}
\* dbHash.collections[collName]
HashOf(db, c) == IF db.colls[c].present THEN db.colls[c].hash ELSE "undefined"

\* Set.add of every name of names, in order
RECURSIVE AddNames(_, _)
AddNames(combined, names) ==
    IF names = <<>> THEN combined
    ELSE AddNames(IF Head(names) \in RangeOf(combined) THEN combined
                  ELSE Append(combined, Head(names)),
                  Tail(names))

\* the names of the secondaries left out
Mut_CombinedDBs_primaryOnly(combined, replies) == combined

\* lines 971-975: combinedDBs from the primary's names and those of the
\* secondaries, replies[k] being the names of the k-th secondary
RECURSIVE CombinedDBs(_, _)
CombinedDBs(combined, replies) ==
    IF replies = <<>> THEN combined
    ELSE CombinedDBs(AddNames(combined, Head(replies)), Tail(replies))

\* Object.keys(dbHash.collections) as the array it is
KeyOrder == <<"a", "b">>
KeyList(db) == SelectSeq(KeyOrder, LAMBDA c : db.colls[c].present)

\* only the elements of a that b has not
Mut_arraySymmetricDifference_inAOnly(a, b) ==
    SelectSeq(a, LAMBDA elem : elem \notin RangeOf(b))

\* arraySymmetricDifference(a, b), lines 887-897
arraySymmetricDifference(a, b) ==
    LET inAOnly == SelectSeq(a, LAMBDA elem : elem \notin RangeOf(b))
        inBOnly == SelectSeq(b, LAMBDA elem : elem \notin RangeOf(a))
    IN  inAOnly \o inBOnly

\* lines 1012-1022
CountDiffers(p, s) == Cardinality(Keys(p)) # Cardinality(Keys(s))
\* lines 1017-1020: the collections dumped where the numbers differ
CountBranchDumps(p, s) ==
    IF CountDiffers(p, s) THEN arraySymmetricDifference(KeyList(p), KeyList(s)) ELSE <<>>
\* every collection of the primary taken as not capped
Mut_nonCappedCollNames_all(p) == {c \in CollNames : p.colls[c].present}
\* lines 1024-1025
nonCappedCollNames(p) == {c \in Keys(p) : ~p.colls[c].capped}
\* lines 1029-1040
HashDiffers(p, s) == \E c \in nonCappedCollNames(p) : HashOf(p, c) # HashOf(s, c)
\* lines 1044-1061: the infos of collections of the same name are compared
InfoDiffers(p, s) == \E c \in Keys(s) \cap Keys(p) : s.colls[c].info # p.colls[c].info
\* lines 1068-1074: collStats of a collection the secondary does not have fails
CollStatsThrows(p, s) == \E c \in Keys(p) : ~s.colls[c].present
\* the stats compared in the capped flag alone
Mut_StatsDiffer_cappedOnly(p, s) ==
    \E c \in {x \in CollNames : p.colls[x].present} : p.colls[c].capped # s.colls[c].capped

\* lines 1076-1087
StatsDiffer(p, s) ==
    \E c \in Keys(p) :
        \/ p.colls[c].capped # s.colls[c].capped
        \/ p.colls[c].nindexes # s.colls[c].nindexes
        \/ p.colls[c].ns # s.colls[c].ns

\* the md5 never compared
Mut_MD5Differs_never(p, s) == FALSE

\* the comparison of line 1094 turned around
Mut_MD5Differs_equal(p, s) ==
    /\ Cardinality(nonCappedCollNames(p)) = Cardinality(Keys(p))
    /\ p.md5 = s.md5

\* lines 1090-1100
MD5Differs(p, s) ==
    /\ Cardinality(nonCappedCollNames(p)) = Cardinality(Keys(p))
    /\ p.md5 # s.md5

\* one of the differences the check looks for
Mismatch(p, s) ==
    \/ CountDiffers(p, s)
    \/ HashDiffers(p, s)
    \/ InfoDiffers(p, s)
    \/ StatsDiffer(p, s)
    \/ MD5Differs(p, s)

\* success set anew by every comparison
Mut_CompareSecondary_anew(p, s, success) ==
    [threw |-> CollStatsThrows(p, s), success |-> ~Mismatch(p, s)]

\* The body of dbHashes.slaves.forEach (lines 1000-1109) for the primary's
\* database p and a secondary's s: whether it throws, and success after it.
CompareSecondary(p, s, success) ==
    [threw |-> CollStatsThrows(p, s), success |-> success /\ ~Mismatch(p, s)]

\* line 1113: the error checkDBHashesForReplSet ends with
HashesResult(success) == IF success THEN "none" ELSE "mismatch"

\* The guarded block ends by an exception: the finally block follows.
Raise(c, e) ==
    [c EXCEPT !.activeException = TRUE, !.error = e, !.todo = <<>>,
              !.primaryDBHash = NoDB, !.i = 0]
Failed(log) == [log EXCEPT !.failedQuery = TRUE]

\* The members' data pinned: every database is the same on the primary, and
\* the same on every secondary, for the whole call; collection "a" of the
\* secondary is any collection, "b" one that differs from the primary's at
\* most in its hash and its capped flag.
StatsColls ==
    {NoColl} \cup {CollNs(h, c, n, i, ns) :
                      h \in CollHashes, c \in BOOLEAN, n \in IndexCounts, i \in CollInfos,
                      ns \in {"ns1", "ns2"}}
PinnedSecondaryDBs ==
    {[colls |-> [c \in CollNames |-> IF c = "a" THEN x ELSE y], md5 |-> m] :
        x \in StatsColls,
        y \in {NoColl} \cup {Coll(h, c, 1, "i1") : h \in CollHashes, c \in BOOLEAN},
        m \in DBHashes}
PinnedDataSets ==
    {[pinned |-> TRUE, primary |-> p, secondary |-> s, nameLists |-> {<<"d1", "local">>}] :
        p \in PrimaryDBs, s \in PinnedSecondaryDBs}
\* What the members answer. Where the data is pinned every command works,
\* and no member is an arbiter.
Works == IF dataSet.pinned THEN {TRUE} ELSE BOOLEAN
DBNameAnswers == dataSet.nameLists
PrimaryAnswers == IF dataSet.pinned THEN {dataSet.primary} ELSE PrimaryDBs
SecondaryAnswers == IF dataSet.pinned THEN {dataSet.secondary} ELSE SecondaryDBs
DBQueries ==
    IF dataSet.pinned THEN {"ok"}
    ELSE {"ok", "dbhash fails", "invalid view", "infos throw"}
SecondaryReplies ==
    IF dataSet.pinned THEN {"ok"} ELSE {"arbiter", "dbhash fails", "ok"}

\* the record of a call at its start
CalledWith(excludedDBs) ==
    [NoHashLog EXCEPT !.excluded = IF dataSet.pinned THEN excludedDBs ELSE <<>>]

\* checkReplicatedDataHashes(excludedDBs): checkDBHashes up to the guarded
\* block (lines 1117-1135): getPrimary, and the flush of background indexing,
\* whose commands work or not.
CheckReplicatedDataHashesCall ==
    /\ pc = "idle"
    /\ op' = "checkReplicatedDataHashes"
    /\ ret' = 0
    /\ LET gp == getPrimary(ismaster)
       IN  /\ liveNodes' = gp.liveNodes
           /\ callRet' = gp.primary
           /\ \E excludedDBs \in ExcludedLists, flushed \in Works :
                /\ check' = [NoCheck EXCEPT !.dbBlacklist = excludedDBs,
                                            !.primary = gp.primary]
                /\ IF gp.threw \/ ~flushed
                   THEN /\ pc' = "failed"
                        /\ err' = IF gp.threw THEN "timeout" ELSE "query"
                        /\ hashLog' = Failed(CalledWith(excludedDBs))
                   ELSE /\ pc' = "lock"
                        /\ err' = "none"
                        /\ hashLog' = CalledWith(excludedDBs)
    /\ lastSeen' = ismaster
    /\ fsync' = NoFsync
    /\ UNCHANGED ismaster
    /\ UNCHANGED <<otVars, agreeVars, commitVars, replVars, toolVars>>

\* lines 1142-1143: fsync lock on the primary, which works or not
HashesLock ==
    /\ op = "checkReplicatedDataHashes" /\ pc = "lock"
    /\ \E locked \in Works :
        IF locked
        THEN /\ fsync' = [fsync EXCEPT !.held = check.primary, !.lockedOn = check.primary]
             /\ pc' = "await"
             /\ UNCHANGED <<check, hashLog>>
        ELSE /\ check' = Raise(check, "query")
             /\ hashLog' = Failed(hashLog)
             /\ pc' = "unlock"
             /\ UNCHANGED fsync
    /\ UNCHANGED <<liveNodes, lastSeen, callRet, op, ret, err, ismaster>>
    /\ UNCHANGED <<otVars, agreeVars, commitVars, replVars, toolVars>>

\* line 1144: rst.awaitReplication, which looks for the primary (lines 725,
\* 748) and returns or throws
HashesAwaitReplication ==
    /\ op = "checkReplicatedDataHashes" /\ pc = "await"
    /\ LET gp == getPrimary(ismaster)
       IN  /\ liveNodes' = gp.liveNodes
           /\ callRet' = gp.primary
           /\ \E synced \in Works :
                IF gp.threw \/ ~synced
                THEN /\ check' = Raise(check, "timeout")
                     /\ hashLog' = Failed(hashLog)
                     /\ pc' = "unlock"
                ELSE /\ pc' = "dbnames"
                     /\ UNCHANGED <<check, hashLog>>
    /\ lastSeen' = ismaster
    /\ UNCHANGED <<op, ret, err, ismaster, fsync>>
    /\ UNCHANGED <<otVars, agreeVars, commitVars, replVars, toolVars>>

\* checkDBHashesForReplSet up to its loop (lines 962-975): getDBNames of the
\* primary and, after getSecondaries, of every secondary answer or throw.
CheckDBHashesForReplSetStart ==
    /\ op = "checkReplicatedDataHashes" /\ pc = "dbnames"
    /\ LET gp == getPrimary(ismaster)
           pushed == [check EXCEPT !.dbBlacklist = Append(@, "local"),
                                   !.success = TRUE,
                                   !.hasDumpedOplog = FALSE,
                                   !.replSetPrimary = liveNodes.master]
       IN  /\ liveNodes' = gp.liveNodes
           /\ callRet' = gp.primary
           /\ \E answered \in Works, names \in DBNameAnswers,
                 replies \in [1 .. Len(gp.liveNodes.slaves) -> DBNameAnswers] :
                IF gp.threw \/ ~answered
                THEN /\ check' = Raise(pushed, IF gp.threw THEN "timeout" ELSE "query")
                     /\ hashLog' = Failed(hashLog)
                     /\ pc' = "unlock"
                ELSE /\ check' = [pushed EXCEPT !.todo = CombinedDBs(names, replies)]
                     /\ pc' = "db"
                     /\ hashLog' = IF dataSet.pinned
                                   THEN [hashLog EXCEPT
                                           !.primaryNames = RangeOf(names),
                                           !.secondaryNames =
                                               UNION {RangeOf(replies[k]) :
                                                         k \in DOMAIN replies}]
                                   ELSE hashLog
    /\ lastSeen' = ismaster
    /\ UNCHANGED <<op, ret, err, ismaster, fsync>>
    /\ UNCHANGED <<otVars, agreeVars, commitVars, replVars, toolVars>>

\* The head of the loop over combinedDBs (lines 977-997) and, the loop being
\* over, the assert of line 1113. query: what the primary does with dbhash and
\* getCollectionInfos; skip: jsTest.options().skipValidationOnInvalidViewDefinitions.
HashesNextDB ==
    /\ op = "checkReplicatedDataHashes" /\ pc = "db"
    /\ IF check.todo = <<>>
       THEN /\ check' = IF HashesResult(check.success) = "none" THEN check
                        ELSE Raise(check, HashesResult(check.success))
            /\ pc' = "unlock"
            /\ UNCHANGED <<liveNodes, lastSeen, callRet, hashLog>>
       ELSE IF Head(check.todo) \in RangeOf(check.dbBlacklist)
       THEN /\ check' = [check EXCEPT !.todo = Tail(@)]
            /\ pc' = "db"
            /\ UNCHANGED <<liveNodes, lastSeen, callRet, hashLog>>
       ELSE LET gp == getPrimary(ismaster)
                called == IF dataSet.pinned
                          THEN [hashLog EXCEPT !.hashed = @ \cup {Head(check.todo)}]
                          ELSE hashLog
            IN  /\ liveNodes' = gp.liveNodes
                /\ callRet' = gp.primary
                /\ lastSeen' = ismaster
                /\ \E query \in DBQueries, skip \in BOOLEAN :
                   \E p \in IF query = "ok" /\ ~gp.threw THEN PrimaryAnswers ELSE {NoDB} :
                        IF gp.threw
                        THEN /\ check' = Raise(check, "timeout")
                             /\ hashLog' = Failed(called)
                             /\ pc' = "unlock"
                        ELSE IF query = "ok"
                        THEN /\ check' = [check EXCEPT !.primaryDBHash = p, !.i = 1]
                             /\ pc' = "slave"
                             /\ hashLog' = [called EXCEPT !.hashedOn = gp.liveNodes.master]
                        ELSE IF query = "invalid view" /\ skip
                        THEN /\ check' = [check EXCEPT !.todo = Tail(@)]
                             /\ hashLog' = Failed(called)
                             /\ pc' = "db"
                        ELSE /\ check' = Raise(check, "query")
                             /\ hashLog' = Failed(called)
                             /\ pc' = "unlock"
    /\ UNCHANGED <<op, ret, err, ismaster, fsync>>
    /\ UNCHANGED <<otVars, agreeVars, commitVars, replVars, toolVars>>

\* One entry of self.liveNodes.slaves in getHashes and in the loop over
\* dbHashes.slaves: an arbiter has no entry in dbHashes.slaves; the dbhash of
\* another member works or not.
HashesCheckSecondary ==
    /\ op = "checkReplicatedDataHashes" /\ pc = "slave"
    /\ IF check.i > Len(liveNodes.slaves)
       THEN /\ check' = [check EXCEPT !.todo = Tail(@), !.primaryDBHash = NoDB, !.i = 0]
            /\ pc' = "db"
            /\ UNCHANGED hashLog
       ELSE \E reply \in SecondaryReplies :
            \E s \in IF reply = "ok" THEN SecondaryAnswers ELSE {NoDB} :
                LET p == check.primaryDBHash
                    r == CompareSecondary(p, s, check.success)
                    logged == [hashLog EXCEPT
                                 !.differs = @ \/ s # p,
                                 !.detected = @ \/ Mismatch(p, s),
                                 !.failedQuery = @ \/ r.threw,
                                 !.pairs = IF Keys(p) # {} /\ @ < 2 THEN @ + 1 ELSE @,
                                 !.thenMatched = @ \/ (/\ hashLog.detected
                                                       /\ ~Mismatch(p, s)
                                                       /\ ~r.threw),
                                 !.dumped = IF dataSet.pinned THEN CountBranchDumps(p, s)
                                            ELSE <<>>]
                IN  IF reply = "arbiter"
                    THEN /\ check' = [check EXCEPT !.i = @ + 1]
                         /\ pc' = "slave"
                         /\ UNCHANGED hashLog
                    ELSE IF reply = "dbhash fails"
                    THEN /\ check' = Raise(check, "query")
                         /\ hashLog' = Failed(hashLog)
                         /\ pc' = "unlock"
                    ELSE IF r.threw
                    THEN /\ check' = Raise(check, "query")
                         /\ hashLog' = logged
                         /\ pc' = "unlock"
                    ELSE /\ check' = [check EXCEPT
                                        !.i = @ + 1,
                                        !.success = r.success,
                                        !.hasDumpedOplog = @ \/ ~r.success]
                         /\ hashLog' = logged
                         /\ pc' = "slave"
    /\ UNCHANGED <<liveNodes, lastSeen, callRet, op, ret, err, ismaster, fsync>>
    /\ UNCHANGED <<otVars, agreeVars, commitVars, replVars, toolVars>>

\* the command left out where the guarded block ended by an exception
Mut_fsyncUnlock_notAfterException(f, member, ok) ==
    IF check.activeException THEN f
    ELSE [f EXCEPT !.held = IF ok THEN 0 ELSE @, !.unlocks = @ + 1, !.unlockedOn = member,
                   !.unlockOk = ok]

\* line 1151: primary.adminCommand({fsyncUnlock: 1}), which works or not
fsyncUnlock(f, member, ok) ==
    [f EXCEPT !.held = IF ok THEN 0 ELSE @, !.unlocks = @ + 1, !.unlockedOn = member,
                   !.unlockOk = ok]

\* Lines 1152-1161: what the call does once fsyncUnlock has answered. A failed
\* release is thrown unless an exception is already under way, in which case
\* it is only printed and that exception goes on.
Mut_UnlockOutcome_releaseErrorWins(activeException, error, ok) ==
    IF ~ok THEN [pc |-> "failed", err |-> "unlock"]
    ELSE IF activeException THEN [pc |-> "failed", err |-> error]
    ELSE [pc |-> "returned", err |-> "none"]

UnlockOutcome(activeException, error, ok) ==
    IF activeException THEN [pc |-> "failed", err |-> error]
    ELSE IF ~ok THEN [pc |-> "failed", err |-> "unlock"]
    ELSE [pc |-> "returned", err |-> "none"]

\* The finally block (lines 1149-1162): fsyncUnlock on the primary, which
\* works only on a member that is locked, and what checkDBHashes ends with.
HashesUnlock ==
    /\ op = "checkReplicatedDataHashes" /\ pc = "unlock"
    /\ \E ok \in IF fsync.held = check.primary THEN Works ELSE {FALSE} :
        /\ fsync' = fsyncUnlock(fsync, check.primary, ok)
        /\ pc' = UnlockOutcome(check.activeException, check.error, ok).pc
        /\ err' = UnlockOutcome(check.activeException, check.error, ok).err
        /\ hashLog' = IF ok THEN hashLog ELSE Failed(hashLog)
    /\ UNCHANGED <<liveNodes, lastSeen, callRet, op, ret, ismaster, check>>
    /\ UNCHANGED <<otVars, agreeVars, commitVars, replVars, toolVars>>

\* The harness after construction, on a replica set in any observable state.
Init ==
    /\ ot1 = Timestamp(0, 0)
    /\ ot2 = Timestamp(0, 0)
    /\ ot3 = Timestamp(0, 0)
    /\ earlier = NoResults
    /\ otpc = "args"
    /\ ismaster \in [Nodes -> Answers]
    /\ liveNodes = NoLiveNodes
    /\ lastSeen = [n \in Nodes |-> "throw"]
    /\ callRet = 0
    /\ op = "none"
    /\ pc = "idle"
    /\ ret = 0
    /\ err = "none"
    /\ status = [n \in Nodes |-> Unreachable]
    /\ masterOpTime = Undefined
    /\ idx = 0
    /\ passLog = NothingSeen
    /\ targetLog = NotRead
    /\ replSet = AnyReplSet
    /\ secondaryOpTimeType = 0
    /\ masterLatestOpTime = Undefined
    /\ configVersion = 0
    /\ master = 0
    /\ replLog = NoReplLog
    /\ check = NoCheck
    /\ fsync = NoFsync
    /\ hashLog = NoHashLog
    /\ dataSet = NoDataSet
    /\ diff = NoDiff
    /\ oplogs = NoOplogs
    /\ roles = NoRoles
    /\ wait = NoWait

Next ==
    \/ GetPrimaryCall
    \/ GetPrimaryPoll
    \/ AwaitNoPrimaryCall
    \/ AwaitNoPrimaryPoll
    \/ SoonTimeout
    \/ Done
    \/ EnvChange

Spec == Init /\ [][Next]_vars

\* The operation-time comparison applied to every triple of operands.
InitOpTime ==
    /\ ot1 \in OpTimes
    /\ ot2 \in OpTimes
    /\ ot3 \in OpTimes
    /\ earlier = NoResults
    /\ otpc = "args"
    /\ ismaster = [n \in Nodes |-> "throw"]
    /\ liveNodes = NoLiveNodes
    /\ lastSeen = [n \in Nodes |-> "throw"]
    /\ callRet = 0
    /\ op = "none"
    /\ pc = "idle"
    /\ ret = 0
    /\ err = "none"
    /\ status = [n \in Nodes |-> Unreachable]
    /\ masterOpTime = Undefined
    /\ idx = 0
    /\ passLog = NothingSeen
    /\ targetLog = NotRead
    /\ replSet = AnyReplSet
    /\ secondaryOpTimeType = 0
    /\ masterLatestOpTime = Undefined
    /\ configVersion = 0
    /\ master = 0
    /\ replLog = NoReplLog
    /\ check = NoCheck
    /\ fsync = NoFsync
    /\ hashLog = NoHashLog
    /\ dataSet = NoDataSet
    /\ diff = NoDiff
    /\ oplogs = NoOplogs
    /\ roles = NoRoles
    /\ wait = NoWait

NextOpTime == CompareOpTimes

SpecOpTime == InitOpTime /\ [][NextOpTime]_vars

\* awaitNodesAgreeOnPrimary on a replica set whose nodes' status answers change.
InitAgree ==
    /\ ot1 = Timestamp(0, 0)
    /\ ot2 = Timestamp(0, 0)
    /\ ot3 = Timestamp(0, 0)
    /\ earlier = NoResults
    /\ otpc = "args"
    /\ ismaster = [n \in Nodes |-> "throw"]
    /\ liveNodes = NoLiveNodes
    /\ lastSeen = [n \in Nodes |-> "throw"]
    /\ callRet = 0
    /\ op = "none"
    /\ pc = "idle"
    /\ ret = 0
    /\ err = "none"
    /\ status \in [Nodes -> StatusReplies]
    /\ masterOpTime = Undefined
    /\ idx = 0
    /\ passLog = NothingSeen
    /\ targetLog = NotRead
    /\ replSet = AnyReplSet
    /\ secondaryOpTimeType = 0
    /\ masterLatestOpTime = Undefined
    /\ configVersion = 0
    /\ master = 0
    /\ replLog = NoReplLog
    /\ check = NoCheck
    /\ fsync = NoFsync
    /\ hashLog = NoHashLog
    /\ dataSet = NoDataSet
    /\ diff = NoDiff
    /\ oplogs = NoOplogs
    /\ roles = NoRoles
    /\ wait = NoWait

NextAgree ==
    \/ AwaitNodesAgreeOnPrimaryCall
    \/ AwaitNodesAgreeOnPrimaryPoll
    \/ SoonTimeout
    \/ Done
    \/ StatusChange

SpecAgree == InitAgree /\ [][NextAgree]_vars

\* awaitLastOpCommitted: the primary is looked up, its optime read, and the
\* members polled.
InitCommitted ==
    /\ ot1 = Timestamp(0, 0)
    /\ ot2 = Timestamp(0, 0)
    /\ ot3 = Timestamp(0, 0)
    /\ earlier = NoResults
    /\ otpc = "args"
    /\ ismaster \in [Nodes -> Answers]
    /\ liveNodes = NoLiveNodes
    /\ lastSeen = [n \in Nodes |-> "throw"]
    /\ callRet = 0
    /\ op = "none"
    /\ pc = "idle"
    /\ ret = 0
    /\ err = "none"
    /\ status = [n \in Nodes |-> Unreachable]
    /\ masterOpTime = Undefined
    /\ idx = 0
    /\ passLog = NothingSeen
    /\ targetLog = NotRead
    /\ replSet = AnyReplSet
    /\ secondaryOpTimeType = 0
    /\ masterLatestOpTime = Undefined
    /\ configVersion = 0
    /\ master = 0
    /\ replLog = NoReplLog
    /\ check = NoCheck
    /\ fsync = NoFsync
    /\ hashLog = NoHashLog
    /\ dataSet = NoDataSet
    /\ diff = NoDiff
    /\ oplogs = NoOplogs
    /\ roles = NoRoles
    /\ wait = NoWait

NextCommitted ==
    \/ AwaitLastOpCommittedCall
    \/ CommittedGetPrimaryPoll
    \/ CommittedGetPrimaryTimeout
    \/ CommittedReadOpTime
    \/ CommittedCheckNode
    \/ SoonTimeout
    \/ Done
    \/ CommittedEnvChange

SpecCommitted == InitCommitted /\ [][NextCommitted]_vars

\* awaitLastOpCommitted on a replica set with one leader, whose leadership
\* moves while the wait polls.
InitCommittedLeader ==
    /\ ot1 = Timestamp(0, 0)
    /\ ot2 = Timestamp(0, 0)
    /\ ot3 = Timestamp(0, 0)
    /\ earlier = NoResults
    /\ otpc = "args"
    /\ ismaster \in {f \in [Nodes -> {"master", "slave"}] :
                        Cardinality({n \in Nodes : f[n] = "master"}) = 1}
    /\ liveNodes = NoLiveNodes
    /\ lastSeen = [n \in Nodes |-> "throw"]
    /\ callRet = 0
    /\ op = "none"
    /\ pc = "idle"
    /\ ret = 0
    /\ err = "none"
    /\ status = [n \in Nodes |-> Unreachable]
    /\ masterOpTime = Undefined
    /\ idx = 0
    /\ passLog = NothingSeen
    /\ targetLog = NotRead
    /\ replSet = AnyReplSet
    /\ secondaryOpTimeType = 0
    /\ masterLatestOpTime = Undefined
    /\ configVersion = 0
    /\ master = 0
    /\ replLog = NoReplLog
    /\ check = NoCheck
    /\ fsync = NoFsync
    /\ hashLog = NoHashLog
    /\ dataSet = NoDataSet
    /\ diff = NoDiff
    /\ oplogs = NoOplogs
    /\ roles = NoRoles
    /\ wait = NoWait

NextCommittedLeader ==
    \/ AwaitLastOpCommittedCall
    \/ CommittedGetPrimaryPoll
    \/ CommittedReadOpTime
    \/ CommittedCheckNode
    \/ CommittedLeaderChange
    \/ SoonTimeout
    \/ Done

SpecCommittedLeader == InitCommittedLeader /\ [][NextCommittedLeader]_vars

\* awaitReplication on a replica set of which nothing is known but what the
\* members answer to ismaster, which stays as it is.
InitReplication ==
    /\ ot1 = Timestamp(0, 0)
    /\ ot2 = Timestamp(0, 0)
    /\ ot3 = Timestamp(0, 0)
    /\ earlier = NoResults
    /\ otpc = "args"
    /\ ismaster \in [Nodes -> Answers]
    /\ liveNodes = NoLiveNodes
    /\ lastSeen = [n \in Nodes |-> "throw"]
    /\ callRet = 0
    /\ op = "none"
    /\ pc = "idle"
    /\ ret = 0
    /\ err = "none"
    /\ status = [n \in Nodes |-> Unreachable]
    /\ masterOpTime = Undefined
    /\ idx = 0
    /\ passLog = NothingSeen
    /\ targetLog = NotRead
    /\ replSet = AnyReplSet
    /\ secondaryOpTimeType = 0
    /\ masterLatestOpTime = Undefined
    /\ configVersion = 0
    /\ master = 0
    /\ replLog = NoReplLog
    /\ check = NoCheck
    /\ fsync = NoFsync
    /\ hashLog = NoHashLog
    /\ dataSet = NoDataSet
    /\ diff = NoDiff
    /\ oplogs = NoOplogs
    /\ roles = NoRoles
    /\ wait = NoWait

NextReplication ==
    \/ AwaitReplicationCall
    \/ ReplLastOpTimeWritten
    \/ ReplReadConfig
    \/ ReplCheckNode
    \/ SoonTimeout
    \/ Done

SpecReplication == InitReplication /\ [][NextReplication]_vars

\* awaitReplication on a replica set in a known state, which stays as it is or
\* moves on while the call waits. The harness runs on, and a wait whose
\* predicate keeps failing reaches its timeout.
InitReplSet ==
    /\ ot1 = Timestamp(0, 0)
    /\ ot2 = Timestamp(0, 0)
    /\ ot3 = Timestamp(0, 0)
    /\ earlier = NoResults
    /\ otpc = "args"
    /\ ismaster \in {f \in [Nodes -> {"master", "slave"}] :
                        Cardinality({n \in Nodes : f[n] = "master"}) = 1}
    /\ liveNodes = NoLiveNodes
    /\ lastSeen = [n \in Nodes |-> "throw"]
    /\ callRet = 0
    /\ op = "none"
    /\ pc = "idle"
    /\ ret = 0
    /\ err = "none"
    /\ status = [n \in Nodes |-> Unreachable]
    /\ masterOpTime = Undefined
    /\ idx = 0
    /\ passLog = NothingSeen
    /\ targetLog = NotRead
    /\ replSet \in {[pinned |-> TRUE, changing |-> c, nodes |-> f] :
                        c \in BOOLEAN, f \in KnownSets(ismaster)}
    /\ secondaryOpTimeType = 0
    /\ masterLatestOpTime = Undefined
    /\ configVersion = 0
    /\ master = 0
    /\ replLog = NoReplLog
    /\ check = NoCheck
    /\ fsync = NoFsync
    /\ hashLog = NoHashLog
    /\ dataSet = NoDataSet
    /\ diff = NoDiff
    /\ oplogs = NoOplogs
    /\ roles = NoRoles
    /\ wait = NoWait

NextReplSet ==
    \/ AwaitReplicationCall
    \/ ReplLastOpTimeWritten
    \/ ReplReadConfig
    \/ ReplCheckNode
    \/ ReplSetAdvance
    \/ ReplSetReconfig
    \/ SoonTimeout
    \/ Done

SpecReplSet ==
    /\ InitReplSet
    /\ [][NextReplSet]_vars
    /\ WF_vars(ReplLastOpTimeWritten)
    /\ WF_vars(ReplReadConfig)
    /\ WF_vars(ReplCheckNode)
    /\ SF_vars(SoonTimeout)

\* checkReplicatedDataHashes on a replica set whose first member is the
\* primary, or that has no primary to be found, the other members being
\* secondaries or arbiters; the members answer the check's commands in any
\* way, and what they answer to ismaster stays as it is.
InitHashes ==
    /\ ot1 = Timestamp(0, 0)
    /\ ot2 = Timestamp(0, 0)
    /\ ot3 = Timestamp(0, 0)
    /\ earlier = NoResults
    /\ otpc = "args"
    /\ ismaster \in {[n \in Nodes |-> IF n = 1 THEN first ELSE "slave"] :
                        first \in {"master", "slave"}}
    /\ liveNodes = NoLiveNodes
    /\ lastSeen = [n \in Nodes |-> "throw"]
    /\ callRet = 0
    /\ op = "none"
    /\ pc = "idle"
    /\ ret = 0
    /\ err = "none"
    /\ status = [n \in Nodes |-> Unreachable]
    /\ masterOpTime = Undefined
    /\ idx = 0
    /\ passLog = NothingSeen
    /\ targetLog = NotRead
    /\ replSet = AnyReplSet
    /\ secondaryOpTimeType = 0
    /\ masterLatestOpTime = Undefined
    /\ configVersion = 0
    /\ master = 0
    /\ replLog = NoReplLog
    /\ check = NoCheck
    /\ fsync = NoFsync
    /\ hashLog = NoHashLog
    /\ dataSet = NoDataSet
    /\ diff = NoDiff
    /\ oplogs = NoOplogs
    /\ roles = NoRoles
    /\ wait = NoWait

NextHashes ==
    \/ CheckReplicatedDataHashesCall
    \/ HashesLock
    \/ HashesAwaitReplication
    \/ CheckDBHashesForReplSetStart
    \/ HashesNextDB
    \/ HashesCheckSecondary
    \/ HashesUnlock
    \/ Done

SpecHashes == InitHashes /\ [][NextHashes]_vars

(***************************************************************************)
(* awaitReplication: the claims.                                           *)
(***************************************************************************)
\* C12: awaitReplication returns only from a pass that was at every secondary
\* of the list, in which every secondary that is no arbiter answered all
\* queries and reported exactly the target the pass began with, that target
\* being the one in force at the return; what earlier passes found counts
\* for nothing, each pass starting from an empty record.
C12_SuccessInOnePass ==
    (op = "awaitReplication" /\ pc = "returned") =>
        /\ replLog.seen = RangeOf(liveNodes.slaves)
        /\ replLog.nonArbOk
        /\ replLog.target = masterLatestOpTime
        /\ replLog.secondaryCount > 0 => masterLatestOpTime \in Timestamps

\* a return after a pass over two secondaries that are no arbiters
C12_Witness ==
    /\ op = "awaitReplication" /\ pc = "returned"
    /\ replLog.secondaryCount = 2
    /\ Cardinality(replLog.seen) = 2
    /\ masterLatestOpTime \in Timestamps

\* C13: a pass of awaitReplication that comes upon a secondary whose optime is
\* newer than the target reads the optime of the recorded primary, here the
\* primary of the set, makes its timestamp the target, and ends unsatisfied
\* with the wait going on; the call does not fail by it.
C13_NewerRefreshesTarget ==
    [][(ReplCheckNode /\ replLog'.event = "newer") =>
          /\ master = EnvLeader
          /\ masterLatestOpTime' = TsOf(replSet.nodes[master].optime)
          /\ TsLess(masterLatestOpTime, masterLatestOpTime')
          /\ pc' = "waiting"
          /\ err' = "none"]_vars

\* the wait goes on with the primary's latest optime as target after a
\* secondary was found ahead of the former target
C13_Witness ==
    /\ op = "awaitReplication" /\ pc = "waiting"
    /\ replLog.event = "newer"
    /\ masterLatestOpTime = TopTs
    /\ replSet.nodes[master].optime = TopOpTime

\* C14: once a pass of awaitReplication has come upon a secondary with a
\* config version greater than the recorded one and the wait goes on, the
\* recorded primary and config version are those of the set's primary.
C14_GreaterVersionReresolved ==
    (op = "awaitReplication" /\ pc = "waiting" /\ replLog.event = "greater") =>
        /\ master = EnvLeader
        /\ configVersion = replSet.nodes[EnvLeader].version

ReplPassEnded ==
    /\ op = "awaitReplication" /\ pc \in {"waiting", "written1", "failed"}
    /\ replLog.event \notin {"none", "continue"}

\* C15 as claimed: a pass of awaitReplication that was at every secondary of
\* the list and did not succeed found a secondary that is no arbiter and did
\* not report the target.
C15_ArbiterNeverBlocks ==
    (ReplPassEnded /\ replLog.seen = RangeOf(liveNodes.slaves)) =>
        ~replLog.nonArbOk

\* C15: arbiters are left out of the comparison of optimes only. A pass that
\* did not succeed found a secondary that is no arbiter and did not report the
\* recorded config version and the target, or an arbiter that failed the
\* query for its config version or its status or reported another config
\* version than the recorded one; a pass that succeeded found every arbiter
\* answering with the recorded config version, whatever optime it reported.
C15_ArbiterOpTimeSkipped ==
    /\ ReplPassEnded => ~(replLog.nonArbOk /\ replLog.arbOk)
    /\ (op = "awaitReplication" /\ pc = "returned") => replLog.arbOk

\* a return from a pass over a secondary and an arbiter that reported another
\* optime than the target
C15_Witness ==
    /\ op = "awaitReplication" /\ pc = "returned"
    /\ replLog.arbiterOff
    /\ replLog.secondaryCount = 1
    /\ Cardinality(replLog.seen) = 2

\* the set is in a known state that stays as it is; every member but the
\* primary has the primary's config version, and every secondary among them
\* the primary's optime
ReplSetSynced ==
    /\ replSet.pinned /\ ~replSet.changing
    /\ EnvLeader # 0
    /\ \A n \in Nodes \ {EnvLeader} :
        /\ replSet.nodes[n].version = replSet.nodes[EnvLeader].version
        /\ replSet.nodes[n].myState = SECONDARY =>
                replSet.nodes[n].optime = replSet.nodes[EnvLeader].optime

\* C16: awaitReplication called on a set with one primary, whose other members
\* all answer, have the primary's config version and, the secondaries, the
\* primary's last applied optime, nothing changing any more, returns in the
\* end.
C16_SyncedSetReturns ==
    (op = "awaitReplication" /\ pc = "written0" /\ ReplSetSynced)
        ~> (op = "awaitReplication" /\ pc = "returned")

\* the call has returned on such a set that has two secondaries
C16_Witness ==
    /\ op = "awaitReplication" /\ pc = "returned"
    /\ ReplSetSynced
    /\ replLog.secondaryCount = 2

\* the timestamp of the optime member n of the set has
ReplTs(n) == TsOf(replSet.nodes[n].optime)
\* the secondaries of the set that are no arbiters
DataSecondaries == {n \in Nodes \ {EnvLeader} : replSet.nodes[n].myState = SECONDARY}
\* one secondary is behind the primary; the other members have the primary's
\* config version and the other secondaries its optime
OneHeldBack ==
    /\ replSet.pinned /\ EnvLeader # 0
    /\ \A n \in Nodes : replSet.nodes[n].version = replSet.nodes[EnvLeader].version
    /\ \E n \in DataSecondaries :
        /\ TsLess(ReplTs(n), ReplTs(EnvLeader))
        /\ \A m \in DataSecondaries \ {n} : ReplTs(m) = ReplTs(EnvLeader)

\* C17: awaitReplication does not return while a secondary that is no arbiter
\* has an optime earlier than the target; in a set that does not change, where
\* the target is the primary's optime, it returns only with every such
\* secondary at exactly the primary's optime; and called on a set that does
\* not change and has one secondary behind the primary, it ends by the timeout
\* of its wait.
C17_HeldBackSecondaryBlocks ==
    /\ []((op = "awaitReplication" /\ pc = "returned" /\ replSet.pinned) =>
            /\ \A n \in DataSecondaries : ~TsLess(ReplTs(n), masterLatestOpTime)
            /\ ~replSet.changing =>
                /\ masterLatestOpTime = ReplTs(EnvLeader)
                /\ \A n \in DataSecondaries : ReplTs(n) = masterLatestOpTime)
    /\ (op = "awaitReplication" /\ pc = "written0" /\ ~replSet.changing /\ OneHeldBack)
            ~> (op = "awaitReplication" /\ pc = "failed" /\ err = "timeout")

\* the wait has timed out on a set of a primary, a secondary at the primary's
\* optime and a secondary behind it
C17_Witness ==
    /\ op = "awaitReplication" /\ pc = "failed" /\ err = "timeout"
    /\ ~replSet.changing /\ OneHeldBack
    /\ Cardinality(DataSecondaries) = 2
    /\ replLog.event = "behind"

\* C18 as claimed: after a query against a secondary has failed in a way that
\* is not transient, awaitReplication has failed.
C18_HardFailureSurfaces ==
    (op = "awaitReplication" /\ replLog.event = "throw" /\ replLog.hard) =>
        pc = "failed"

\* C18: a query against a secondary that throws, by a transient failure or
\* not, ends the pass: the primary and the target are looked up again and the
\* wait goes on; awaitReplication then fails only by the timeout of its wait.
C18_QueryFailureRetried ==
    (op = "awaitReplication" /\ replLog.event = "throw") =>
        \/ pc \in {"written1", "waiting"} /\ err = "none"
        \/ pc = "failed" /\ err = "timeout"

\* the wait goes on after a query against a secondary failed in a way that is
\* not transient
C18_Witness ==
    /\ op = "awaitReplication" /\ pc = "waiting"
    /\ replLog.event = "throw" /\ replLog.hard
    /\ masterLatestOpTime \in Timestamps

(***************************************************************************)
(* checkReplicatedDataHashes: the claims.                                  *)
(***************************************************************************)
HashesEnded == op = "checkReplicatedDataHashes" /\ pc \in {"returned", "failed"}

\* C19: checkReplicatedDataHashes returns without an error when every
\* database it compared was on every secondary the same as on the primary
\* (the same collections with the same hashes, capped flags, index counts and
\* infos, and the same md5) and none of its commands failed.
C19_IdenticalDataSucceeds ==
    (HashesEnded /\ ~hashLog.differs /\ ~hashLog.failedQuery) =>
        pc = "returned" /\ err = "none"

\* a call has returned after two or more comparisons of databases that have
\* collections, all the same on primary and secondary
C19_Witness ==
    /\ HashesEnded /\ pc = "returned"
    /\ ~hashLog.differs /\ ~hashLog.failedQuery
    /\ hashLog.pairs = 2

\* C20: once a comparison has found a difference in the number of
\* collections, in the hash of a collection not capped on the primary, in a
\* collection's info or stats, or in the md5 of a database without capped
\* collections, success is false for the rest of the call, whatever later
\* comparisons find, and the call ends with an error; a call in which no
\* comparison found one and no command failed returns without an error.
C20_DetectedDifferenceFails ==
    /\ (op = "checkReplicatedDataHashes" /\ pc \in {"db", "slave"} /\ hashLog.detected) =>
            ~check.success
    /\ (HashesEnded /\ hashLog.detected) => (pc = "failed" /\ err # "none")
    /\ (HashesEnded /\ ~hashLog.detected /\ ~hashLog.failedQuery) =>
            (pc = "returned" /\ err = "none")

\* a call has failed by the mismatch a comparison found, a later comparison
\* having found none
C20_Witness ==
    /\ HashesEnded /\ pc = "failed" /\ err = "mismatch"
    /\ hashLog.detected /\ hashLog.thenMatched
    /\ ~hashLog.failedQuery

\* ---------------------------------------------------------------------------
\* dumpCollectionDiff (899-957)
\* ---------------------------------------------------------------------------
\* The largest _id of a document of the collections the walk is given.
MaxId == 3
DocIds == 1 .. MaxId
DocBodies == {"x", "y"}
\* A collection holds at most one document of an _id: coll[id] is the rest of
\* the document, "" where the collection has none.
Collections == [DocIds -> DocBodies \cup {""}]
Doc(id, body) == [_id |-> id, body |-> body]
\* coll.find().sort({_id: 1}).toArray(): the documents in ascending _id
RECURSIVE SortById(_, _)
SortById(coll, upTo) ==
    IF upTo = 0 THEN <<>>
    ELSE IF coll[upTo] = "" THEN SortById(coll, upTo - 1)
    ELSE Append(SortById(coll, upTo - 1), Doc(upTo, coll[upTo]))
\* tojsononeline(doc): the one-line rendering, different for different documents
tojsononeline(doc) == [line |-> doc]
\* bsonBinaryEqual(a, b): the documents are the same bytes
bsonBinaryEqual(a, b) == a = b
\* bsonWoCompare({wrapper: a}, {wrapper: b}): negative, 0 or positive as a
\* sorts before, with or after b
bsonWoCompare(a, b) == IF a < b THEN -1 ELSE IF a = b THEN 0 ELSE 1

\* a pair of documents of one _id that differ pushed to both lists
Mut_DumpLoopBody_differingMissing(d) ==
    LET primaryDoc == d.primaryDocs[d.primaryIndex + 1]
        secondaryDoc == d.secondaryDocs[d.secondaryIndex + 1]
    IN  IF d.primaryIndex < 0
        THEN [d EXCEPT !.missingOnPrimary = Append(@, tojsononeline(secondaryDoc)),
                       !.secondaryIndex = @ - 1]
        ELSE IF d.secondaryIndex < 0
        THEN [d EXCEPT !.missingOnSecondary = Append(@, tojsononeline(primaryDoc)),
                       !.primaryIndex = @ - 1]
        ELSE IF bsonBinaryEqual(primaryDoc, secondaryDoc)
        THEN [d EXCEPT !.primaryIndex = @ - 1, !.secondaryIndex = @ - 1]
        ELSE [d EXCEPT !.missingOnPrimary = Append(@, tojsononeline(secondaryDoc)),
                       !.missingOnSecondary = Append(@, tojsononeline(primaryDoc)),
                       !.primaryIndex = @ - 1, !.secondaryIndex = @ - 1]

\* One turn of the while loop (915-946). primaryDocs[primaryIndex] is read
\* only where the index is not negative.
DumpLoopBody(d) ==
    LET primaryDoc == d.primaryDocs[d.primaryIndex + 1]
        secondaryDoc == d.secondaryDocs[d.secondaryIndex + 1]
        ordering == bsonWoCompare(primaryDoc._id, secondaryDoc._id)
    IN  IF d.primaryIndex < 0
        THEN [d EXCEPT !.missingOnPrimary = Append(@, tojsononeline(secondaryDoc)),
                       !.secondaryIndex = @ - 1]
        ELSE IF d.secondaryIndex < 0
        THEN [d EXCEPT !.missingOnSecondary = Append(@, tojsononeline(primaryDoc)),
                       !.primaryIndex = @ - 1]
        ELSE IF ~bsonBinaryEqual(primaryDoc, secondaryDoc)
        THEN IF ordering = 0
             THEN [d EXCEPT !.primaryIndex = @ - 1, !.secondaryIndex = @ - 1]
             ELSE IF ordering < 0
             THEN [d EXCEPT !.missingOnPrimary = Append(@, tojsononeline(secondaryDoc)),
                            !.secondaryIndex = @ - 1]
             ELSE [d EXCEPT !.missingOnSecondary = Append(@, tojsononeline(primaryDoc)),
                            !.primaryIndex = @ - 1]
        ELSE [d EXCEPT !.primaryIndex = @ - 1, !.secondaryIndex = @ - 1]

\* dumpCollectionDiff(primary, secondary, dbName, collName), lines 900-912
DumpCollectionDiffCall ==
    /\ pc = "idle"
    /\ \E primaryColl \in Collections, secondaryColl \in Collections :
        LET primaryDocs == SortById(primaryColl, MaxId)
            secondaryDocs == SortById(secondaryColl, MaxId)
        IN  diff' = [primaryDocs |-> primaryDocs, secondaryDocs |-> secondaryDocs,
                     primaryIndex |-> Len(primaryDocs) - 1,
                     secondaryIndex |-> Len(secondaryDocs) - 1,
                     missingOnPrimary |-> <<>>, missingOnSecondary |-> <<>>]
    /\ op' = "dumpCollectionDiff"
    /\ pc' = "walk"
    /\ UNCHANGED <<liveNodes, lastSeen, callRet, ret, err, ismaster, dataSet, oplogs, roles, wait>>
    /\ UNCHANGED <<otVars, agreeVars, commitVars, replVars, hashVars>>

\* the while loop takes a turn (914)
DumpWalk ==
    /\ op = "dumpCollectionDiff"
    /\ pc = "walk"
    /\ diff.primaryIndex >= 0 \/ diff.secondaryIndex >= 0
    /\ diff' = DumpLoopBody(diff)
    /\ UNCHANGED <<envVars, harnessVars, dataSet, oplogs, roles, wait>>
    /\ UNCHANGED <<otVars, agreeVars, commitVars, replVars, hashVars>>

\* the loop is over; the lists are printed (949-956)
DumpReport ==
    /\ op = "dumpCollectionDiff"
    /\ pc = "walk"
    /\ ~(diff.primaryIndex >= 0 \/ diff.secondaryIndex >= 0)
    /\ pc' = "returned"
    /\ UNCHANGED <<liveNodes, lastSeen, callRet, op, ret, err, ismaster>>
    /\ UNCHANGED <<otVars, agreeVars, commitVars, dataVars>>

InitDump ==
    /\ ot1 = Timestamp(0, 0)
    /\ ot2 = Timestamp(0, 0)
    /\ ot3 = Timestamp(0, 0)
    /\ earlier = NoResults
    /\ otpc = "args"
    /\ ismaster = [n \in Nodes |-> "slave"]
    /\ liveNodes = NoLiveNodes
    /\ lastSeen = [n \in Nodes |-> "throw"]
    /\ callRet = 0
    /\ op = "none"
    /\ pc = "idle"
    /\ ret = 0
    /\ err = "none"
    /\ status = [n \in Nodes |-> Unreachable]
    /\ masterOpTime = Undefined
    /\ idx = 0
    /\ passLog = NothingSeen
    /\ targetLog = NotRead
    /\ replSet = AnyReplSet
    /\ secondaryOpTimeType = 0
    /\ masterLatestOpTime = Undefined
    /\ configVersion = 0
    /\ master = 0
    /\ replLog = NoReplLog
    /\ check = NoCheck
    /\ fsync = NoFsync
    /\ hashLog = NoHashLog
    /\ dataSet = NoDataSet
    /\ diff = NoDiff
    /\ oplogs = NoOplogs
    /\ roles = NoRoles
    /\ wait = NoWait

NextDump ==
    \/ DumpCollectionDiffCall
    \/ DumpWalk
    \/ DumpReport
    \/ Done

SpecDump == InitDump /\ [][NextDump]_vars

DocsOf(docs) == {docs[k] : k \in 1 .. Len(docs)}
IdsOf(docs) == {docs[k]._id : k \in 1 .. Len(docs)}
Lines(list) == {list[k] : k \in 1 .. Len(list)}
OnlyIn(a, b) == {tojsononeline(d) : d \in {x \in DocsOf(a) : x._id \notin IdsOf(b)}}
C21_WalkDescends ==
    (op = "dumpCollectionDiff" /\ pc = "walk" /\ pc' = "walk") =>
        /\ diff'.primaryIndex + diff'.secondaryIndex < diff.primaryIndex + diff.secondaryIndex
        /\ diff'.primaryIndex >= -1
        /\ diff'.secondaryIndex >= -1
C21_ReportExact ==
    (op = "dumpCollectionDiff" /\ pc = "returned") =>
        /\ diff.primaryIndex = -1
        /\ diff.secondaryIndex = -1
        /\ Lines(diff.missingOnPrimary) = OnlyIn(diff.secondaryDocs, diff.primaryDocs)
        /\ Len(diff.missingOnPrimary) = Cardinality(OnlyIn(diff.secondaryDocs, diff.primaryDocs))
        /\ Lines(diff.missingOnSecondary) = OnlyIn(diff.primaryDocs, diff.secondaryDocs)
        /\ Len(diff.missingOnSecondary) = Cardinality(OnlyIn(diff.primaryDocs, diff.secondaryDocs))
\* C21: dumpCollectionDiff ends, with both lists walked to their start: every
\* turn of the loop steps at least one index back and none below -1. At the
\* end the documents listed as missing on the primary are exactly the
\* secondary's documents whose _id the primary has not, each once, and the
\* other way round; documents of one _id are never listed, whether or not
\* they differ.
C21_DiffMergesByKey == [][C21_WalkDescends]_vars /\ []C21_ReportExact
\* a walk has ended over a secondary with one document the primary has not
\* and one of an _id the primary holds with other content
C21_Witness ==
    /\ op = "dumpCollectionDiff"
    /\ pc = "returned"
    /\ diff.primaryDocs = <<Doc(1, "x"), Doc(2, "x")>>
    /\ diff.secondaryDocs = <<Doc(1, "x"), Doc(2, "y"), Doc(3, "x")>>
    /\ diff.missingOnPrimary = <<tojsononeline(Doc(3, "x"))>>
    /\ diff.missingOnSecondary = <<>>

\* checkReplicatedDataHashes on a set of one primary and two or more
\* secondaries whose data is pinned
InitHashPair ==
    /\ ot1 = Timestamp(0, 0)
    /\ ot2 = Timestamp(0, 0)
    /\ ot3 = Timestamp(0, 0)
    /\ earlier = NoResults
    /\ otpc = "args"
    /\ ismaster = [n \in Nodes |-> IF n = 1 THEN "master" ELSE "slave"]
    /\ liveNodes = NoLiveNodes
    /\ lastSeen = [n \in Nodes |-> "throw"]
    /\ callRet = 0
    /\ op = "none"
    /\ pc = "idle"
    /\ ret = 0
    /\ err = "none"
    /\ status = [n \in Nodes |-> Unreachable]
    /\ masterOpTime = Undefined
    /\ idx = 0
    /\ passLog = NothingSeen
    /\ targetLog = NotRead
    /\ replSet = AnyReplSet
    /\ secondaryOpTimeType = 0
    /\ masterLatestOpTime = Undefined
    /\ configVersion = 0
    /\ master = 0
    /\ replLog = NoReplLog
    /\ check = NoCheck
    /\ fsync = NoFsync
    /\ hashLog = NoHashLog
    /\ dataSet \in PinnedDataSets
    /\ diff = NoDiff
    /\ oplogs = NoOplogs
    /\ roles = NoRoles
    /\ wait = NoWait

NextHashPair ==
    \/ CheckReplicatedDataHashesCall
    \/ HashesLock
    \/ HashesAwaitReplication
    \/ CheckDBHashesForReplSetStart
    \/ HashesNextDB
    \/ HashesCheckSecondary
    \/ HashesUnlock
    \/ Done

SpecHashPair == InitHashPair /\ [][NextHashPair]_vars

\* the call in progress has compared the pinned databases
PairCompared == dataSet.pinned /\ hashLog.pairs > 0

\* the secondary's database is the primary's but for the hashes of
\* collections that are capped on the primary (and, where one of those
\* differs, the md5 of the database)
CappedHashDiffers(p, s) ==
    \E c \in CollNames :
        p.colls[c].present /\ p.colls[c].capped /\ s.colls[c].hash # p.colls[c].hash
SameButCappedHashes(p, s) ==
    /\ \A c \in CollNames :
        \/ s.colls[c] = p.colls[c]
        \/ /\ p.colls[c].present
           /\ p.colls[c].capped
           /\ s.colls[c] = [p.colls[c] EXCEPT !.hash = s.colls[c].hash]
    /\ s.md5 = p.md5 \/ CappedHashDiffers(p, s)
\* C22: a difference in the hash of a collection that is capped on the
\* primary never makes the check fail: a call over members that differ in
\* nothing else returns; and a call that returns after comparing has found
\* the hash of every collection that is not capped on the primary equal.
C22_CappedHashesIgnored ==
    /\ (HashesEnded /\ dataSet.pinned /\ SameButCappedHashes(dataSet.primary, dataSet.secondary))
          => pc = "returned"
    /\ (HashesEnded /\ PairCompared /\ pc = "returned") =>
          \A c \in Keys(dataSet.primary) :
              ~dataSet.primary.colls[c].capped =>
                  HashOf(dataSet.primary, c) = HashOf(dataSet.secondary, c)
\* a call has returned after comparing a capped collection whose hash differs
C22_Witness ==
    /\ HashesEnded
    /\ PairCompared
    /\ pc = "returned"
    /\ dataSet.primary.colls["a"].capped
    /\ dataSet.secondary.colls["a"].hash # dataSet.primary.colls["a"].hash
    /\ dataSet.primary.colls["b"].present
    /\ ~dataSet.primary.colls["b"].capped

\* the pinned database is not excluded by the caller, so the call compares it
PairNotExcluded == dataSet.pinned /\ "d1" \notin RangeOf(check.dbBlacklist)
\* the collections one of the two members has and the other has not
OnOneSideOnly(p, s) == (Keys(p) \ Keys(s)) \cup (Keys(s) \ Keys(p))
MetadataDiffers(p, s) ==
    \E c \in Keys(p) \cap Keys(s) :
        \/ p.colls[c].capped # s.colls[c].capped
        \/ p.colls[c].nindexes # s.colls[c].nindexes
        \/ p.colls[c].ns # s.colls[c].ns
        \/ p.colls[c].info # s.colls[c].info
AllHashesMatch(p, s) ==
    /\ \A c \in CollNames : HashOf(p, c) = HashOf(s, c)
    /\ p.md5 = s.md5
\* C24: the check fails where a collection of the primary and of a secondary
\* differs in index count, capped flag, ns or collection info, also when
\* every hash is the same.
C24_MetadataDifferenceFails ==
    (HashesEnded /\ PairNotExcluded /\ MetadataDiffers(dataSet.primary, dataSet.secondary)) =>
        (pc = "failed" /\ err # "none")
\* a call has failed over members with the same hashes, one collection
\* differing in its index count alone
C24_Witness ==
    /\ HashesEnded
    /\ PairNotExcluded
    /\ pc = "failed"
    /\ err = "mismatch"
    /\ AllHashesMatch(dataSet.primary, dataSet.secondary)
    /\ dataSet.primary.colls["a"].present
    /\ dataSet.secondary.colls["a"] = [dataSet.primary.colls["a"] EXCEPT !.nindexes = 2]
    /\ dataSet.secondary.colls["b"] = dataSet.primary.colls["b"]

\* every collection that is not capped on the primary has the same hash on
\* the secondary, the metadata and the numbers of collections are the same,
\* and the md5 of the database differs
OnlyMD5Differs(p, s) ==
    /\ \A c \in Keys(p) : ~p.colls[c].capped => HashOf(p, c) = HashOf(s, c)
    /\ ~MetadataDiffers(p, s)
    /\ Cardinality(Keys(p)) = Cardinality(Keys(s))
    /\ p.md5 # s.md5
NoneCapped(p) == \A c \in Keys(p) : ~p.colls[c].capped
\* C25 as stated: with the hashes of the non-capped collections, the
\* metadata and the counts the same, a different md5 makes the check fail.
C25_MD5DifferenceFails ==
    (HashesEnded /\ PairNotExcluded /\ OnlyMD5Differs(dataSet.primary, dataSet.secondary)) =>
        (pc = "failed" /\ err # "none")
\* C25, amended: it does so where no collection of the database is capped
\* on the primary.
C25_MD5DifferenceFailsUncapped ==
    (/\ HashesEnded
     /\ PairNotExcluded
     /\ OnlyMD5Differs(dataSet.primary, dataSet.secondary)
     /\ NoneCapped(dataSet.primary)) =>
        (pc = "failed" /\ err # "none")
\* a call has failed over two uncapped collections that are the same on both
\* members, the md5 alone differing
C25_Witness ==
    /\ HashesEnded
    /\ PairNotExcluded
    /\ pc = "failed"
    /\ err = "mismatch"
    /\ Keys(dataSet.primary) = {"a", "b"}
    /\ NoneCapped(dataSet.primary)
    /\ dataSet.secondary.colls = dataSet.primary.colls
    /\ dataSet.secondary.md5 # dataSet.primary.md5

\* C26: once the call has locked a member, it issues fsyncUnlock exactly
\* once, to that member, before it returns or throws: none while the guarded
\* block runs, and one when the call has ended, however it ended.
C26_UnlockIssuedOnce ==
    (op = "checkReplicatedDataHashes" /\ fsync.lockedOn # 0) =>
        /\ pc \in {"await", "dbnames", "db", "slave", "unlock"} => fsync.unlocks = 0
        /\ HashesEnded => (fsync.unlocks = 1 /\ fsync.unlockedOn = fsync.lockedOn)
\* a call that locked the primary has thrown a mismatch, the unlock issued
C26_Witness ==
    /\ HashesEnded
    /\ pc = "failed"
    /\ err = "mismatch"
    /\ fsync.lockedOn # 0
    /\ fsync.unlocks = 1
    /\ fsync.unlockedOn = fsync.lockedOn

\* Members that hold the same data, with any database names: every database
\* is p on every member.
SyncedDataSets ==
    {[pinned |-> TRUE, primary |-> p, secondary |-> p, nameLists |-> NameLists] :
        p \in {[colls |-> [c \in CollNames |-> IF c = "a" THEN Coll("h1", FALSE, 1, "i1")
                                                ELSE NoColl],
                md5 |-> "m1"]}}

\* While a call is between its start and its end the primary steps down and
\* another member is elected.
LeaderMoves ==
    /\ op = "checkReplicatedDataHashes"
    /\ pc \in {"lock", "await", "dbnames", "db", "slave", "unlock"}
    /\ \E m \in Nodes :
        /\ ismaster[m] # "master"
        /\ ismaster' = [n \in Nodes |-> IF n = m THEN "master" ELSE "slave"]
    /\ UNCHANGED harnessVars
    /\ UNCHANGED notLeaderVars

\* checkReplicatedDataHashes on members in sync, the leader moving
InitHashSet ==
    /\ ot1 = Timestamp(0, 0)
    /\ ot2 = Timestamp(0, 0)
    /\ ot3 = Timestamp(0, 0)
    /\ earlier = NoResults
    /\ otpc = "args"
    /\ ismaster = [n \in Nodes |-> IF n = 1 THEN "master" ELSE "slave"]
    /\ liveNodes = NoLiveNodes
    /\ lastSeen = [n \in Nodes |-> "throw"]
    /\ callRet = 0
    /\ op = "none"
    /\ pc = "idle"
    /\ ret = 0
    /\ err = "none"
    /\ status = [n \in Nodes |-> Unreachable]
    /\ masterOpTime = Undefined
    /\ idx = 0
    /\ passLog = NothingSeen
    /\ targetLog = NotRead
    /\ replSet = AnyReplSet
    /\ secondaryOpTimeType = 0
    /\ masterLatestOpTime = Undefined
    /\ configVersion = 0
    /\ master = 0
    /\ replLog = NoReplLog
    /\ check = NoCheck
    /\ fsync = NoFsync
    /\ hashLog = NoHashLog
    /\ dataSet \in SyncedDataSets
    /\ diff = NoDiff
    /\ oplogs = NoOplogs
    /\ roles = NoRoles
    /\ wait = NoWait

NextHashSet ==
    \/ CheckReplicatedDataHashesCall
    \/ HashesLock
    \/ HashesAwaitReplication
    \/ CheckDBHashesForReplSetStart
    \/ HashesNextDB
    \/ HashesCheckSecondary
    \/ HashesUnlock
    \/ LeaderMoves
    \/ Done

SpecHashSet == InitHashSet /\ [][NextHashSet]_vars

\* C27: every dbhash that a call takes as the primary's comes from the
\* member the call has locked, while that member is locked, also when the
\* leader has moved since the lock was taken.
C27_LeaderDigestFromLockedMember ==
    (op = "checkReplicatedDataHashes" /\ pc = "slave" /\ hashLog.hashedOn # 0) =>
        (hashLog.hashedOn = fsync.lockedOn /\ fsync.held = hashLog.hashedOn)

\* the databases a call is to compare: those the primary or a secondary
\* named, but for the caller's excludedDBs and local
ToCompare ==
    ((hashLog.primaryNames \cup hashLog.secondaryNames) \ RangeOf(hashLog.excluded))
        \ {"local"}
\* C28: the databases getHashes is called for are exactly those that the
\* primary or a secondary names, minus the caller's excludedDBs and minus
\* local: while the call runs none of the excluded ones and never local, and
\* all of the others when the call has ended.
C28_ComparesUnionMinusExcluded ==
    (op = "checkReplicatedDataHashes" /\ dataSet.pinned) =>
        /\ hashLog.hashed \cap (RangeOf(hashLog.excluded) \cup {"local"}) = {}
        /\ hashLog.hashed \subseteq ToCompare
        /\ HashesEnded => hashLog.hashed = ToCompare
\* a call has ended that excluded d1, which the primary has, and compared
\* d2, which only a secondary has
C28_Witness ==
    /\ HashesEnded
    /\ pc = "returned"
    /\ hashLog.excluded = <<"d1">>
    /\ hashLog.primaryNames = {"d1", "local"}
    /\ "d2" \in hashLog.secondaryNames
    /\ hashLog.hashed = {"d2"}

\* ---------------------------------------------------------------------------
\* ensureOplogsMatch (1428-1505)
\* ---------------------------------------------------------------------------
\* The number of operations in the history of the set.
MaxOps == 3
\* the ts of the k-th operation
OpTS(k) == Timestamp(k \div 2, k % 2)
\* An oplog holds some of the operations, not none, in their order.
RECURSIVE LogOf(_, _)
LogOf(S, upTo) ==
    IF upTo = 0 THEN <<>>
    ELSE IF upTo \in S THEN Append(LogOf(S, upTo - 1), OpTS(upTo))
    ELSE LogOf(S, upTo - 1)
Oplogs == {LogOf(S, MaxOps) : S \in (SUBSET (1 .. MaxOps)) \ {{}}}
\* this.nodes of any length, with the oplog of each member
NodeOplogs == UNION {[1 .. n -> Oplogs] : n \in 0 .. NumNodes}

Null == [type |-> "null"]
\* readers[i].getFirstDoc().ts (1459-1461)
getFirstDoc(log) == Head(log)

\* The loop of lines 1477-1483 from member i on (counted from 1). Reading
\* largestTS.t of null throws a TypeError, the reader of member i made.
RECURSIVE FirstLoop(_, _, _)
FirstLoop(logs, i, largestTS) ==
    IF i > Len(logs) THEN [threw |-> FALSE, largestTS |-> largestTS, readers |-> i - 1]
    ELSE LET currTS == getFirstDoc(logs[i])
         IN  IF largestTS = Null
             THEN [threw |-> TRUE, largestTS |-> largestTS, readers |-> i]
             ELSE IF \/ currTS.t.v > largestTS.t.v
                     \/ (currTS.t.v = largestTS.t.v /\ currTS.i.v > largestTS.i.v)
             THEN FirstLoop(logs, i + 1, currTS)
             ELSE FirstLoop(logs, i + 1, largestTS)

\* query(ts) (1452-1457): the cursor over the entries with ts >= largestTS
OplogQuery(log, ts) ==
    SelectSeq(log, LAMBDA e : e.t.v > ts.t.v \/ (e.t.v = ts.t.v /\ e.i.v >= ts.i.v))

Matched == [error |-> "none", named |-> 0]
\* lines 1493-1496 for the readers from i on: next() of a cursor at its end
\* throws; assert.eq names the member in its message
RECURSIVE OthersNext(_, _, _)
OthersNext(cursors, i, ts) ==
    IF i > Len(cursors) THEN Matched
    ELSE IF cursors[i] = <<>> THEN [error |-> "cursor at its end", named |-> 0]
    ELSE IF Head(cursors[i]) # ts THEN [error |-> "non-matching ts", named |-> i]
    ELSE OthersNext(cursors, i + 1, ts)
\* lines 1500-1503 for the readers from i on; the message is made of the
\* reader object, not of the member
RECURSIVE NoMoreOplog(_, _)
NoMoreOplog(cursors, i) ==
    IF i > Len(cursors) THEN Matched
    ELSE IF cursors[i] # <<>> THEN [error |-> "shouldn't have more oplog", named |-> 0]
    ELSE NoMoreOplog(cursors, i + 1)
\* lines 1490-1503
RECURSIVE Lockstep(_)
Lockstep(cursors) ==
    IF cursors[1] = <<>> THEN NoMoreOplog(cursors, 2)
    ELSE LET r == OthersNext(cursors, 2, Head(cursors[1]))
         IN  IF r.error # "none" THEN r
             ELSE Lockstep([k \in 1 .. Len(cursors) |-> Tail(cursors[k])])

\* the block entered for every set that has a member
Mut_ensureOplogsMatch_anyMember(logs) ==
    IF Len(logs) = 0 THEN [error |-> "none", named |-> 0, readers |-> 0, queried |-> 0]
    ELSE LET first == FirstLoop(logs, 1, Null)
         IN  IF first.threw
             THEN [error |-> "TypeError", named |-> 0, readers |-> first.readers, queried |-> 0]
             ELSE LET r == Lockstep([k \in 1 .. Len(logs) |->
                                        OplogQuery(logs[k], first.largestTS)])
                  IN  [error |-> r.error, named |-> r.named, readers |-> first.readers,
                       queried |-> Len(logs)]

\* ensureOplogsMatch on the members with these oplogs: the error it throws,
\* the member the message names, the readers made and the query() calls
ensureOplogsMatch(logs) ==
    IF ~(Len(logs) # 0 /\ Len(logs) > 1)
    THEN [error |-> "none", named |-> 0, readers |-> 0, queried |-> 0]
    ELSE LET first == FirstLoop(logs, 1, Null)
         IN  IF first.threw
             THEN [error |-> "TypeError", named |-> 0, readers |-> first.readers, queried |-> 0]
             ELSE LET r == Lockstep([k \in 1 .. Len(logs) |->
                                        OplogQuery(logs[k], first.largestTS)])
                  IN  [error |-> r.error, named |-> r.named, readers |-> first.readers,
                       queried |-> Len(logs)]

EnsureOplogsMatchCall ==
    /\ pc = "idle"
    /\ \E logs \in NodeOplogs :
        LET r == ensureOplogsMatch(logs)
        IN  /\ oplogs' = [logs |-> logs, readers |-> r.readers, queried |-> r.queried,
                         named |-> r.named]
            /\ pc' = IF r.error = "none" THEN "returned" ELSE "failed"
            /\ err' = r.error
    /\ op' = "ensureOplogsMatch"
    /\ UNCHANGED <<liveNodes, lastSeen, callRet, ret, ismaster, dataSet, diff, roles, wait>>
    /\ UNCHANGED <<otVars, agreeVars, commitVars, replVars, hashVars>>

InitOplogs ==
    /\ ot1 = Timestamp(0, 0)
    /\ ot2 = Timestamp(0, 0)
    /\ ot3 = Timestamp(0, 0)
    /\ earlier = NoResults
    /\ otpc = "args"
    /\ ismaster = [n \in Nodes |-> "slave"]
    /\ liveNodes = NoLiveNodes
    /\ lastSeen = [n \in Nodes |-> "throw"]
    /\ callRet = 0
    /\ op = "none"
    /\ pc = "idle"
    /\ ret = 0
    /\ err = "none"
    /\ status = [n \in Nodes |-> Unreachable]
    /\ masterOpTime = Undefined
    /\ idx = 0
    /\ passLog = NothingSeen
    /\ targetLog = NotRead
    /\ replSet = AnyReplSet
    /\ secondaryOpTimeType = 0
    /\ masterLatestOpTime = Undefined
    /\ configVersion = 0
    /\ master = 0
    /\ replLog = NoReplLog
    /\ check = NoCheck
    /\ fsync = NoFsync
    /\ hashLog = NoHashLog
    /\ dataSet = NoDataSet
    /\ diff = NoDiff
    /\ oplogs = NoOplogs
    /\ roles = NoRoles
    /\ wait = NoWait

NextOplogs ==
    \/ EnsureOplogsMatchCall
    \/ Done

SpecOplogs == InitOplogs /\ [][NextOplogs]_vars

OplogsEnded == op = "ensureOplogsMatch" /\ pc \in {"returned", "failed"}
\* C29: ensureOplogsMatch on two or more members whose oplogs are the same
\* returns without an error.
C29_IdenticalOplogsSucceed ==
    (/\ OplogsEnded
     /\ Len(oplogs.logs) >= 2
     /\ \A k \in 1 .. Len(oplogs.logs) : oplogs.logs[k] = oplogs.logs[1]) =>
        (pc = "returned" /\ err = "none")

\* member k has the oplog of the others but for its last entry
TruncatedAt(logs, k) ==
    /\ Len(logs) >= 2
    /\ \E full \in Oplogs :
        /\ Len(full) >= 2
        /\ logs[k] = SubSeq(full, 1, Len(full) - 1)
        /\ \A j \in (1 .. Len(logs)) \ {k} : logs[j] = full
\* C30: with one member's oplog cut to L-1 entries and the others' the same
\* L entries, ensureOplogsMatch fails by an assertion whose message names
\* that member, wherever it is in the list.
C30_TruncatedMemberNamed ==
    \A k \in 1 .. NumNodes :
        (OplogsEnded /\ k <= Len(oplogs.logs) /\ TruncatedAt(oplogs.logs, k)) =>
            /\ pc = "failed"
            /\ err \in {"non-matching ts", "shouldn't have more oplog"}
            /\ oplogs.named = k

\* the common start: the greatest of the members' first timestamps
AtOrAfter(e, ts) == e.t.v > ts.t.v \/ (e.t.v = ts.t.v /\ e.i.v >= ts.i.v)
CommonStart(logs) ==
    CHOOSE m \in {Head(logs[k]) : k \in 1 .. Len(logs)} :
        \A k \in 1 .. Len(logs) : AtOrAfter(m, Head(logs[k]))
\* what member k holds from the common start on
FromStart(logs, k) == SelectSeq(logs[k], LAMBDA e : AtOrAfter(e, CommonStart(logs)))
\* at step j every member has an entry, the members agree on all entries
\* before it, and member k is the first in the list whose entry is not the
\* first member's
FirstDiffers(logs, k, j) ==
    /\ \A m \in 1 .. Len(logs) :
        /\ Len(FromStart(logs, m)) >= j
        /\ SubSeq(FromStart(logs, m), 1, j - 1) = SubSeq(FromStart(logs, 1), 1, j - 1)
    /\ FromStart(logs, k)[j] # FromStart(logs, 1)[j]
    /\ \A m \in 2 .. k - 1 : FromStart(logs, m)[j] = FromStart(logs, 1)[j]
\* C31: the oplogs are read in lockstep from the common start: a call that
\* returns has found the same entries on every member, and the first step at
\* which a member's timestamp is not the first member's fails the call by an
\* assertion whose message names that member.
C31_LockstepNamesFirstDiffering ==
    /\ (OplogsEnded /\ Len(oplogs.logs) >= 2 /\ pc = "returned") =>
          \A k \in 1 .. Len(oplogs.logs) :
              FromStart(oplogs.logs, k) = FromStart(oplogs.logs, 1)
    /\ \A k \in 2 .. NumNodes, j \in 1 .. MaxOps :
          (OplogsEnded /\ k <= Len(oplogs.logs) /\ FirstDiffers(oplogs.logs, k, j)) =>
              (pc = "failed" /\ err = "non-matching ts" /\ oplogs.named = k)

\* from the common start on the members hold the same entries as far as the
\* shortest goes, and not all hold equally many
LeftoverEntries(logs) ==
    /\ Len(logs) >= 2
    /\ \E n \in 0 .. MaxOps :
        /\ \A m \in 1 .. Len(logs) :
            /\ Len(FromStart(logs, m)) >= n
            /\ SubSeq(FromStart(logs, m), 1, n) = SubSeq(FromStart(logs, 1), 1, n)
        /\ \E m \in 1 .. Len(logs) : Len(FromStart(logs, m)) = n
        /\ \E m \in 1 .. Len(logs) : Len(FromStart(logs, m)) > n
C33_SingleMemberReadsNothing ==
    (OplogsEnded /\ Len(oplogs.logs) <= 1) =>
        /\ pc = "returned"
        /\ err = "none"
        /\ oplogs.readers = 0
        /\ oplogs.queried = 0
\* a call on a single member has returned
C33_Witness ==
    /\ OplogsEnded
    /\ Len(oplogs.logs) = 1
    /\ Len(oplogs.logs[1]) = 2
    /\ pc = "returned"
    /\ oplogs.readers = 0

\* ---------------------------------------------------------------------------
\* awaitSecondaryNodes (472-494)
\* ---------------------------------------------------------------------------
\* ready taken from the last member alone
RECURSIVE Mut_SecondariesReady_lastOnly(_, _, _, _)
Mut_SecondariesReady_lastOnly(slaves, i, ready, reports) ==
    IF i > Len(slaves) THEN ready
    ELSE LET arbiter == reports[slaves[i]] = "arbiter"
         IN  Mut_SecondariesReady_lastOnly(slaves, i + 1,
                 reports[slaves[i]] = "secondary" \/ arbiter, reports)

\* The loop of lines 483-487 from position i on (counted from 1):
\* isMaster.secondary is true of a secondary, arbiterOnly of an arbiter.
RECURSIVE SecondariesReady(_, _, _, _)
SecondariesReady(slaves, i, ready, reports) ==
    IF i > Len(slaves) THEN ready
    ELSE LET arbiter == reports[slaves[i]] = "arbiter"
         IN  SecondariesReady(slaves, i + 1,
                 ready /\ (reports[slaves[i]] = "secondary" \/ arbiter), reports)

AwaitSecondaryNodesCall ==
    /\ pc = "idle"
    /\ op' = "awaitSecondaryNodes"
    /\ pc' = "start"
    /\ ret' = 0
    /\ err' = "none"
    /\ UNCHANGED <<liveNodes, lastSeen, callRet, ismaster>>
    /\ UNCHANGED notLeaderVars

\* One call of the predicate (lines 476-490): getPrimary reloads liveNodes
\* or throws, and the ismaster of a slave (failing: the one whose query
\* fails, 0 for none) answers or throws; a throw counts as false.
AwaitSecondaryNodesPoll ==
    /\ op = "awaitSecondaryNodes" /\ Polling
    /\ LET gp == getPrimary(ismaster)
       IN  /\ liveNodes' = gp.liveNodes
           /\ callRet' = gp.primary
           /\ \E failing \in {0} \cup Nodes :
                LET threw == gp.threw \/ failing \in RangeOf(gp.liveNodes.slaves)
                IN  pc' = soonNoExcept(~threw /\
                              SecondariesReady(gp.liveNodes.slaves, 1, TRUE, roles))
    /\ lastSeen' = ismaster
    /\ UNCHANGED <<op, ret, err, ismaster>>
    /\ UNCHANGED notLeaderVars

\* While a wait is in progress a member changes what it answers to
\* ismaster, or what it reports of itself.
\* A set is configured with at most one arbiter; being an arbiter is part of
\* the configuration, while a data-bearing member moves between recovering
\* and secondary.
MemberConfigs ==
    {f \in [Nodes -> MemberRoles] : Cardinality({n \in Nodes : f[n] = "arbiter"}) <= 1}

MemberChange ==
    /\ pc \notin {"returned", "failed"}
    /\ \/ /\ \E n \in Nodes, a \in Answers :
                /\ ismaster[n] # a
                /\ ismaster' = [ismaster EXCEPT ![n] = a]
          /\ UNCHANGED roles
       \/ /\ \E n \in Nodes, r \in MemberRoles \ {"arbiter"} :
                /\ roles[n] \notin {r, "arbiter"}
                /\ roles' = [roles EXCEPT ![n] = r]
          /\ UNCHANGED ismaster
    /\ UNCHANGED harnessVars
    /\ UNCHANGED <<otVars, agreeVars, commitVars, replVars, hashVars>>
    /\ UNCHANGED <<dataSet, diff, oplogs, wait>>

InitSecondaries ==
    /\ ot1 = Timestamp(0, 0)
    /\ ot2 = Timestamp(0, 0)
    /\ ot3 = Timestamp(0, 0)
    /\ earlier = NoResults
    /\ otpc = "args"
    /\ ismaster \in [Nodes -> Answers]
    /\ liveNodes = NoLiveNodes
    /\ lastSeen = [n \in Nodes |-> "throw"]
    /\ callRet = 0
    /\ op = "none"
    /\ pc = "idle"
    /\ ret = 0
    /\ err = "none"
    /\ status = [n \in Nodes |-> Unreachable]
    /\ masterOpTime = Undefined
    /\ idx = 0
    /\ passLog = NothingSeen
    /\ targetLog = NotRead
    /\ replSet = AnyReplSet
    /\ secondaryOpTimeType = 0
    /\ masterLatestOpTime = Undefined
    /\ configVersion = 0
    /\ master = 0
    /\ replLog = NoReplLog
    /\ check = NoCheck
    /\ fsync = NoFsync
    /\ hashLog = NoHashLog
    /\ dataSet = NoDataSet
    /\ diff = NoDiff
    /\ oplogs = NoOplogs
    /\ roles \in MemberConfigs
    /\ wait = NoWait

NextSecondaries ==
    \/ AwaitSecondaryNodesCall
    \/ AwaitSecondaryNodesPoll
    \/ SoonTimeout
    \/ MemberChange

SpecSecondaries == InitSecondaries /\ [][NextSecondaries]_vars

\* C34: awaitSecondaryNodes returns only after a pass that found exactly
\* one primary and in which every member that the reload listed as a slave
\* reported itself a secondary or an arbiter; a member listed as a slave
\* that is still recovering keeps the call from returning.
C34_ReturnsWhenSlavesReady ==
    (op = "awaitSecondaryNodes" /\ pc = "returned") =>
        /\ Cardinality({n \in Nodes : ismaster[n] = "master"}) = 1
        /\ liveNodes.master # 0
        /\ ismaster[liveNodes.master] = "master"
        /\ RangeOf(liveNodes.slaves) = {n \in Nodes : ismaster[n] = "slave"}
        /\ \A n \in Nodes : ismaster[n] = "slave" => roles[n] \in {"secondary", "arbiter"}
\* a call has returned on a primary, a secondary and an arbiter
C34_Witness ==
    /\ op = "awaitSecondaryNodes"
    /\ pc = "returned"
    /\ ismaster[1] = "master"
    /\ ismaster[2] = "slave" /\ roles[2] = "secondary"
    /\ ismaster[3] = "slave" /\ roles[3] = "arbiter"

C38_NoUnlockWithoutLock ==
    (op = "checkReplicatedDataHashes" /\ fsync.lockedOn = 0) => fsync.unlocks = 0

\* C39: when a call has ended, the array the caller passed as excludedDBs,
\* which the call uses as its dbBlacklist, holds what it held at the call.
C39_ExcludedDBsUnchanged ==
    (HashesEnded /\ dataSet.pinned) => check.dbBlacklist = hashLog.excluded
(***************************************************************************)
(* One call of awaitReplication on a replica set in a known state in which *)
(* some member may be out of reach and, while the set moves on, the        *)
(* primary may step down for another member.                               *)
(***************************************************************************)
\* the primary steps down and a secondary within reach is elected
ReplLeaderMoves ==
    /\ ReplSetMoves
    /\ \E m \in Nodes \ {EnvLeader} :
        /\ replSet.nodes[m].myState = SECONDARY
        /\ ismaster[m] = "slave"
        /\ ismaster' = [ismaster EXCEPT ![EnvLeader] = "slave", ![m] = "master"]
        /\ replSet' = [replSet EXCEPT !.nodes[EnvLeader].myState = SECONDARY,
                                      !.nodes[m].myState = PRIMARY]
    /\ UNCHANGED <<secondaryOpTimeType, masterLatestOpTime, configVersion, master, replLog>>
    /\ UNCHANGED harnessVars
    /\ UNCHANGED <<otVars, agreeVars, commitVars, hashVars, toolVars>>

\* The sets of InitReplLeader: every member has the latest config version.
LeaderSets(view) ==
    {f \in KnownSets(view) : \A n \in Nodes : f[n].version = MaxVersion}

\* Some members may be out of reach, and stay so.
InitReplLeader ==
    /\ ot1 = Timestamp(0, 0)
    /\ ot2 = Timestamp(0, 0)
    /\ ot3 = Timestamp(0, 0)
    /\ earlier = NoResults
    /\ otpc = "args"
    /\ ismaster \in {f \in [Nodes -> Answers] :
                        Cardinality({n \in Nodes : f[n] = "master"}) = 1}
    /\ liveNodes = NoLiveNodes
    /\ lastSeen = [n \in Nodes |-> "throw"]
    /\ callRet = 0
    /\ op = "none"
    /\ pc = "idle"
    /\ ret = 0
    /\ err = "none"
    /\ status = [n \in Nodes |-> Unreachable]
    /\ masterOpTime = Undefined
    /\ idx = 0
    /\ passLog = NothingSeen
    /\ targetLog = NotRead
    /\ replSet \in {[pinned |-> TRUE, changing |-> c, nodes |-> f] :
                        c \in BOOLEAN, f \in LeaderSets(ismaster)}
    /\ secondaryOpTimeType = 0
    /\ masterLatestOpTime = Undefined
    /\ configVersion = 0
    /\ master = 0
    /\ replLog = NoReplLog
    /\ check = NoCheck
    /\ fsync = NoFsync
    /\ hashLog = NoHashLog
    /\ dataSet = NoDataSet
    /\ diff = NoDiff
    /\ oplogs = NoOplogs
    /\ roles = NoRoles
    /\ wait = NoWait

NextReplLeader ==
    \/ AwaitReplicationCall
    \/ ReplLastOpTimeWritten
    \/ ReplReadConfig
    \/ ReplCheckNode
    \/ ReplSetAdvance
    \/ ReplLeaderMoves
    \/ SoonTimeout

SpecReplLeader == InitReplLeader /\ [][NextReplLeader]_vars

\* the target is assigned: by awaitLastOpTimeWrittenFn (line 728) after
\* getPrimary returned, or at line 815 after a secondary was found ahead
TargetReplaced ==
    \/ ReplLastOpTimeWritten /\ ~getPrimary(ismaster).threw
    \/ ReplCheckNode /\ replLog'.event = "newer" /\ pc' = "waiting"

\* C36: whenever awaitReplication replaces its target, the new target is the
\* latest optime of the member that is the primary of the set at that moment.
C36_TargetFromCurrentLeader ==
    [][(TargetReplaced /\ replSet.pinned) =>
          (EnvLeader # 0 /\ masterLatestOpTime' = ReplTs(EnvLeader))]_vars

\* C37: on a set whose members' optimes and roles stay as they are,
\* awaitReplication returns only with every member that is neither the
\* primary nor an arbiter at the target, whether or not the member was
\* within reach when the list of secondaries was taken.
C37_ReturnMeansAllAtTarget ==
    (op = "awaitReplication" /\ pc = "returned" /\ replSet.pinned /\ ~replSet.changing) =>
        \A n \in Nodes :
            replSet.nodes[n].myState = SECONDARY => ReplTs(n) = masterLatestOpTime

(***************************************************************************)
(* waitForState(node, state, timeout) with a list of members.              *)
(* wait: nodes, the list; states and listed, the state argument (a list of *)
(* states, or one state kept as a list of one); i, the position in nodes   *)
(* of the member being waited for; found, the state each member had in     *)
(* the status that ended the wait for it.                                  *)
(* pc: "start" (the wait for member i has begun, its predicate not yet     *)
(* run), "waiting" (the predicate has failed at least once).               *)
(***************************************************************************)
MaxWait == 2

\* the lists of members a call is given
WaitLists ==
    {q \in UNION {[1 .. l -> Nodes] : l \in 1 .. MaxWait} :
        \A j, k \in 1 .. Len(q) : j # k => q[j] # q[k]}

\* the state arguments for a list of len members: one state, or a list of
\* states, one for each member or too short
StatesArgs(len) ==
    {[listed |-> FALSE, v |-> <<s>>] : s \in MemberStates}
    \cup {[listed |-> TRUE, v |-> q] :
            q \in UNION {[1 .. l -> MemberStates] : l \in {1, len}}}

\* lines 149-153: the state member k of the list is waited for with
WaitTarget(w, k) == IF w.listed THEN w.states[k] ELSE w.states[1]

\* lines 184-191: the member whose status is taken: the primary, or failing
\* that the first member that answered as a secondary (0: none)
WaitConn(r) ==
    IF r.ret # 0 THEN r.ret
    ELSE IF Len(r.liveNodes.slaves) > 0 THEN r.liveNodes.slaves[1]
    ELSE 0

\* the test passing whatever the status says of the member
Mut_IndicatorReached_any(members, node, states) == TRUE

\* lines 222-239: the status lists the member in one of the states
IndicatorReached(members, node, states) ==
    \E j \in 1 .. Len(states) : members[node] = states[j]

WaitForStateCall ==
    /\ pc = "idle"
    /\ op' = "waitForState"
    /\ pc' = "start"
    /\ ret' = 0
    /\ err' = "none"
    /\ \E nodes \in WaitLists :
        \E arg \in StatesArgs(Len(nodes)) :
            wait' = [nodes |-> nodes, states |-> arg.v, listed |-> arg.listed,
                     i |-> 1, found |-> <<>>]
    /\ UNCHANGED <<liveNodes, lastSeen, callRet, ismaster>>
    /\ UNCHANGED <<otVars, agreeVars, commitVars, replVars, hashVars>>
    /\ UNCHANGED <<dataSet, diff, oplogs, roles>>

\* One call of the predicate of the wait for member i (lines 180-243). When
\* it returns true the loop of lines 149-154 goes on to the next member, for
\* which a state list that is too short has no state: reading .length of
\* undefined at line 166 throws. After the last member the call returns.
WaitForIndicatorPoll ==
    /\ op = "waitForState" /\ Polling
    /\ LET r == _callIsMaster(ismaster)
           conn == WaitConn(r)
           node == wait.nodes[wait.i]
           reached == /\ conn # 0
                      /\ status[conn].ok
                      /\ IndicatorReached(status[conn].members, node,
                                          <<WaitTarget(wait, wait.i)>>)
       IN  /\ liveNodes' = r.liveNodes
           /\ callRet' = r.ret
           /\ IF ~reached
              THEN /\ pc' = "waiting"
                   /\ UNCHANGED <<wait, err>>
              ELSE /\ wait' = [wait EXCEPT !.found = Append(@, status[conn].members[node]),
                                           !.i = IF @ = Len(wait.nodes) THEN @ ELSE @ + 1]
                   /\ IF wait.i = Len(wait.nodes)
                      THEN pc' = "returned" /\ UNCHANGED err
                      ELSE IF wait.listed /\ wait.i + 1 > Len(wait.states)
                      THEN pc' = "failed" /\ err' = "TypeError"
                      ELSE pc' = "start" /\ UNCHANGED err
    /\ lastSeen' = ismaster
    /\ UNCHANGED <<op, ret, ismaster>>
    /\ UNCHANGED <<otVars, agreeVars, commitVars, replVars, hashVars>>
    /\ UNCHANGED <<dataSet, diff, oplogs, roles>>

\* every member reports the states in m, and answers ismaster by its own
SetStatus(m) == [n \in Nodes |-> [ok |-> TRUE, members |-> m]]
SetAnswers(m) == [n \in Nodes |-> IF m[n] = PRIMARY THEN "master" ELSE "slave"]

\* while a wait is in progress a member goes to another state
WaitMemberChange ==
    /\ op = "waitForState" /\ Polling
    /\ \E n \in Nodes, st \in MemberStates :
        /\ status[n].members[n] # st
        /\ status' = SetStatus([status[n].members EXCEPT ![n] = st])
        /\ ismaster' = [ismaster EXCEPT ![n] = IF st = PRIMARY THEN "master" ELSE "slave"]
    /\ UNCHANGED harnessVars
    /\ UNCHANGED <<otVars, commitVars, replVars, hashVars, toolVars>>

InitWaitForState ==
    /\ \E m \in [Nodes -> MemberStates] :
        /\ status = SetStatus(m)
        /\ ismaster = SetAnswers(m)
    /\ ot1 = Timestamp(0, 0)
    /\ ot2 = Timestamp(0, 0)
    /\ ot3 = Timestamp(0, 0)
    /\ earlier = NoResults
    /\ otpc = "args"
    /\ liveNodes = NoLiveNodes
    /\ lastSeen = [n \in Nodes |-> "throw"]
    /\ callRet = 0
    /\ op = "none"
    /\ pc = "idle"
    /\ ret = 0
    /\ err = "none"
    /\ masterOpTime = Undefined
    /\ idx = 0
    /\ passLog = NothingSeen
    /\ targetLog = NotRead
    /\ replSet = AnyReplSet
    /\ secondaryOpTimeType = 0
    /\ masterLatestOpTime = Undefined
    /\ configVersion = 0
    /\ master = 0
    /\ replLog = NoReplLog
    /\ check = NoCheck
    /\ fsync = NoFsync
    /\ hashLog = NoHashLog
    /\ dataSet = NoDataSet
    /\ diff = NoDiff
    /\ oplogs = NoOplogs
    /\ roles = NoRoles
    /\ wait = NoWait

NextWaitForState ==
    \/ WaitForStateCall
    \/ WaitForIndicatorPoll
    \/ SoonTimeout
    \/ WaitMemberChange

SpecWaitForState == InitWaitForState /\ [][NextWaitForState]_vars

\* the state member n is in
MemberState(n) == status[n].members[n]
WaitReturned == op = "waitForState" /\ pc = "returned"

\* C40 as claimed: when waitForState, called with a list of members, returns,
\* every member of the list is in its target state.
C40_AllInTargetAtReturn ==
    WaitReturned =>
        \A k \in 1 .. Len(wait.nodes) : MemberState(wait.nodes[k]) = WaitTarget(wait, k)

\* C40: when waitForState, called with a list of members, returns, every
\* member of the list was in its target state in the status that ended the
\* wait for it, and the last member of the list is in its target state.
C40_EachInTargetWhenItsWaitEnded ==
    WaitReturned =>
        /\ Len(wait.found) = Len(wait.nodes)
        /\ \A k \in 1 .. Len(wait.nodes) : wait.found[k] = WaitTarget(wait, k)
        /\ MemberState(wait.nodes[Len(wait.nodes)]) = WaitTarget(wait, Len(wait.nodes))
\* the call has returned for two members of which the first has left its
\* target state while the second was waited for
C40_Witness ==
    /\ WaitReturned
    /\ Len(wait.nodes) = 2
    /\ wait.found[1] = WaitTarget(wait, 1)
    /\ MemberState(wait.nodes[1]) # WaitTarget(wait, 1)
====
